---- MODULE Spec2Model ----
(***************************************************************************)
(* A model of the CMS container engine of libksba (src/src/cms.c): the     *)
(* container object, its setters, and the two user-pumped state machines   *)
(* ksba_cms_parse / ksba_cms_build with the signed-data content handlers.  *)
(*                                                                         *)
(* Object identifiers are sequences of arcs (the dotted string of the C    *)
(* code, split at the dots); byte strings are sequences of 0..255.         *)
(* A NULL pointer is the empty sequence (strings, images), 0 (reader and   *)
(* writer handles) or the name "NULL" (handlers, certificates).            *)
(***************************************************************************)
EXTENDS Integers, Sequences, FiniteSets, TLC

VARIABLES
  cms,      \* the fields of the container (struct ksba_cms_s)
  out,      \* the bytes the writer has accepted so far
  hashed,   \* the chunks the hash callback received in the latest
            \* ksba_cms_hash_signed_attrs call that invoked it
  last,     \* the latest ksba_cms_parse / ksba_cms_build call and its result
  log,      \* the stop reasons returned by the successful parse/build calls
  aborted,  \* the process was ended by a failed assert()
  heap      \* what has left the container: the ksba_cms_get_cert calls and
            \* their results, the certificates ksba_cms_release released,
            \* and whether the container itself has been freed

vars == <<cms, out, hashed, last, log, aborted, heap>>

\* the container can still be called
Alive == ~aborted /\ ~heap.freed

-----------------------------------------------------------------------------
(* Bounds of the model *)

\* the longest cert_list the model builds
MaxSigners == 2
\* the longest digest_algos list the model builds
MaxAlgos == 2
\* the writer may fail at its 1st .. MaxFailPoint-th call within one engine step
MaxFailPoint == 1
\* the number of ksba_cms_get_cert calls the model records
MaxGetCert == 3

-----------------------------------------------------------------------------
(* Object identifiers *)

OID_data          == <<1, 2, 840, 113549, 1, 7, 1>>
OID_signedData    == <<1, 2, 840, 113549, 1, 7, 2>>
OID_envelopedData == <<1, 2, 840, 113549, 1, 7, 3>>
OID_digestedData  == <<1, 2, 840, 113549, 1, 7, 5>>
OID_encryptedData == <<1, 2, 840, 113549, 1, 7, 6>>
OID_authData      == <<1, 2, 840, 113549, 1, 9, 16, 1, 2>>
OID_unknown       == <<1, 2, 3, 4>>
OID_sha1          == <<1, 3, 14, 3, 2, 26>>
OID_md5           == <<1, 2, 840, 113549, 2, 5>>

\* oidstr_messageDigest
oidstr_messageDigest == <<1, 2, 840, 113549, 1, 9, 4>>
\* oid_messageDigest: the DER content octets of the same OID
oid_messageDigest == <<42, 134, 72, 134, 247, 13, 1, 9, 4>>

\* the dispatcher table; a NULL handler is "NULL", the closing { NULL } row
\* is the end of the sequence
content_handlers ==
  << [oid |-> OID_data,          ct |-> "KSBA_CT_DATA",
      parse_handler |-> "ct_parse_data",
      build_handler |-> "ct_build_data"],
     [oid |-> OID_signedData,    ct |-> "KSBA_CT_SIGNED_DATA",
      parse_handler |-> "ct_parse_signed_data",
      build_handler |-> "ct_build_signed_data"],
     [oid |-> OID_envelopedData, ct |-> "KSBA_CT_ENVELOPED_DATA",
      parse_handler |-> "ct_parse_enveloped_data",
      build_handler |-> "ct_build_enveloped_data"],
     [oid |-> OID_digestedData,  ct |-> "KSBA_CT_DIGESTED_DATA",
      parse_handler |-> "ct_parse_digested_data",
      build_handler |-> "ct_build_digested_data"],
     [oid |-> OID_encryptedData, ct |-> "KSBA_CT_ENCRYPTED_DATA",
      parse_handler |-> "ct_parse_encrypted_data",
      build_handler |-> "ct_build_encrypted_data"],
     [oid |-> OID_authData,      ct |-> "KSBA_CT_AUTH_DATA",
      parse_handler |-> "NULL",
      build_handler |-> "NULL"] >>

\* for (i=0; content_handlers[i].oid; i++) if (!strcmp (.. oid ..)) break;
\* the index of the first row with this OID, Len+1 for the closing row
RowOfOid(oid) ==
  LET hits == {i \in 1..Len(content_handlers) : content_handlers[i].oid = oid}
  IN  IF hits = {} THEN Len(content_handlers) + 1
      ELSE CHOOSE i \in hits : \A j \in hits : i <= j

\* for (i=0; content_handlers[i].oid; i++) if (.. ct == type) break;
RowOfType(type) ==
  LET hits == {i \in 1..Len(content_handlers) : content_handlers[i].ct = type}
  IN  IF hits = {} THEN Len(content_handlers) + 1
      ELSE CHOOSE i \in hits : \A j \in hits : i <= j

-----------------------------------------------------------------------------
(* BER/DER helpers used by the builder *)

TYPE_INTEGER      == 2
TYPE_OCTET_STRING == 4
TYPE_NULL         == 5
TYPE_OBJECT_ID    == 6
TYPE_SEQUENCE     == 16
TYPE_SET          == 17
CLASS_UNIVERSAL   == 0
CLASS_CONTEXT     == 2

\* the base-128 digits of one arc, most significant first, continuation
\* bits set on all but the last
RECURSIVE Base128(_, _)
Base128(n, isLast) ==
  LET lo == (n % 128) + (IF isLast THEN 0 ELSE 128)
  IN  IF n < 128 THEN <<lo>> ELSE Base128(n \div 128, FALSE) \o <<lo>>

RECURSIVE ArcsDER(_)
ArcsDER(arcs) ==
  IF arcs = <<>> THEN <<>>
  ELSE Base128(Head(arcs), TRUE) \o ArcsDER(Tail(arcs))

\* ksba_oid_from_str: the DER content octets of an OID
ksba_oid_from_str(oid) ==
  <<40 * oid[1] + oid[2]>> \o ArcsDER(SubSeq(oid, 3, Len(oid)))

\* _ksba_ber_write_tl: the tag and length octets; a length of 0 on a
\* constructed object selects the indefinite form, tag 0 in class 0 is the
\* end-of-contents marker
ber_write_tl(tag, class, constructed, length) ==
  IF tag = 0 /\ class = 0 THEN <<0, 0>>
  ELSE << class * 64 + (IF constructed THEN 32 ELSE 0) + tag,
          IF tag = TYPE_NULL /\ class = CLASS_UNIVERSAL THEN 0
          ELSE IF length = 0 /\ constructed THEN 128
          ELSE length >>

\* a definite-length primitive or constructed TLV
TLV(tagbyte, content) == <<tagbyte, Len(content)>> \o content

\* _ksba_der_write_algorithm_identifier: SEQUENCE { OID, NULL }
der_algorithm_identifier(oid) ==
  TLV(48, TLV(TYPE_OBJECT_ID, ksba_oid_from_str(oid)) \o <<TYPE_NULL, 0>>)

-----------------------------------------------------------------------------
(* The container *)

\* the reader and the writer objects a caller can pass; 0 is NULL
Readers == {1}
Writers == {2}

\* the certificates a caller adds: the n-th ksba_cms_add_signer call hands
\* over certificate n (ownership moves to the container, so no certificate
\* is added twice)
CertOf(n) == n

\* the message digests a caller supplies; the empty one has digest_len 0,
\* the longest one exceeds DIM(cl->msg_digest)
DIM_msg_digest == 3
Digests == {<<>>, <<17>>, <<1, 2, 3, 4>>}

\* the digest algorithm OIDs a caller registers
AlgoOids == {OID_sha1}

\* the content types a caller passes to ksba_cms_set_content_type; the last
\* one is a value that is in no row of the table
CallerTypes ==
  {"KSBA_CT_DATA", "KSBA_CT_SIGNED_DATA", "KSBA_CT_AUTH_DATA", "KSBA_CT_NONE"}

StopReasons ==
  {"NONE", "KSBA_SR_RUNNING", "KSBA_SR_GOT_CONTENT", "KSBA_SR_NEED_HASH",
   "KSBA_SR_BEGIN_DATA", "KSBA_SR_END_DATA", "KSBA_SR_READY",
   "KSBA_SR_NEED_SIG"}

\* ksba_cms_new: xtrycalloc (1, sizeof *cms) -- every field is zero
ksba_cms_new ==
  [ reader             |-> 0,
    writer             |-> 0,
    stop_reason        |-> "NONE",
    content            |-> [oid |-> <<>>, ct |-> "KSBA_CT_NONE",
                            handler |-> "NULL"],
    encap_cont_type    |-> <<>>,
    digest_algos       |-> <<>>,
    cert_list          |-> <<>>,
    signer_info        |-> [root |-> FALSE, image |-> <<>>],
    data_digest        |-> FALSE,
    detached_signature |-> FALSE,
    hash_fnc           |-> FALSE ]

\* the result of an API call that ran no engine step
Ret(c, err) == [cms |-> c, err |-> err, bytes |-> <<>>, step |-> "none"]

\* what `last` records of an engine call (pre: the stored stop reason at
\* entry; ret: the value left in *r_stopreason; step: the engine step that
\* ran; handler: the content handler at entry; wrote: the number of bytes
\* the writer accepted)
Call(op, pre, r, ret) ==
  [op |-> op, err |-> r.err, pre |-> pre.stop_reason, ret |-> ret,
   step |-> r.step, handler |-> pre.content.handler, wrote |-> Len(r.bytes)]

\* the allocator as the model follows it: got, the certificates handed out
\* by ksba_cms_get_cert; lost, the slots of the container whose string was
\* overwritten while it was allocated; released, the certificates
\* ksba_cms_release has passed to ksba_cert_release; freed, the container is
\* gone
NewHeap == [got |-> <<>>, lost |-> {}, released |-> {}, freed |-> FALSE]

Init ==
  /\ cms = ksba_cms_new
  /\ out = <<>>
  /\ hashed = <<>>
  /\ last = Call("ksba_cms_new", ksba_cms_new, Ret(ksba_cms_new, "OK"), "NONE")
  /\ log = <<>>
  /\ aborted = FALSE
  /\ heap = NewHeap

-----------------------------------------------------------------------------
(* Setters *)

\* the checks of ksba_cms_set_reader_writer, in the order of the code
\* variant: only the reader direction is guarded against rebinding
set_reader_writer_check_ReaderOnly(c, r, w) ==
  IF r = 0 /\ w = 0 THEN "KSBA_Invalid_Value"
  ELSE IF r # 0 /\ c.reader # 0 THEN "KSBA_Conflict"
  ELSE "OK"

set_reader_writer_check(c, r, w) ==
  IF r = 0 /\ w = 0 THEN "KSBA_Invalid_Value"
  ELSE IF (r # 0 /\ c.reader # 0) \/ (w # 0 /\ c.writer # 0)
       THEN "KSBA_Conflict"
  ELSE "OK"

cms_set_reader_writer(c, r, w) ==
  LET err == set_reader_writer_check(c, r, w)
  IN  IF err # "OK" THEN Ret(c, err)
      ELSE Ret([c EXCEPT !.reader = r, !.writer = w], "OK")

ksba_cms_set_reader_writer ==
  /\ Alive
  /\ \E r \in Readers \cup {0}, w \in Writers \cup {0} :
       cms' = cms_set_reader_writer(cms, r, w).cms
  /\ UNCHANGED <<out, hashed, last, log, aborted, heap>>

\* ksba_cms_set_hash_function
cms_set_hash_function(c, fnc) == Ret([c EXCEPT !.hash_fnc = fnc], "OK")

ksba_cms_set_hash_function ==
  /\ Alive
  /\ \E fnc \in BOOLEAN :
       cms' = cms_set_hash_function(cms, fnc).cms
  /\ UNCHANGED <<out, hashed, last, log, aborted, heap>>

\* ksba_cms_set_content_type
cms_set_content_type(c, what, type) ==
  LET i == RowOfType(type)
  IN  IF what < 0 \/ what > 1 THEN Ret(c, "KSBA_Invalid_Value")
      ELSE IF i > Len(content_handlers)
           THEN Ret(c, "KSBA_Unknown_CMS_Object")
      ELSE IF content_handlers[i].build_handler = "NULL"
           THEN Ret(c, "KSBA_Unsupported_CMS_Object")
      ELSE IF what = 0
           THEN Ret([c EXCEPT !.content =
                       [oid     |-> content_handlers[i].oid,
                        ct      |-> content_handlers[i].ct,
                        handler |-> content_handlers[i].build_handler]], "OK")
      ELSE Ret([c EXCEPT !.encap_cont_type = content_handlers[i].oid], "OK")

\* the string a successful ksba_cms_set_content_type call stores over
\* without freeing it: the slot whose former OID string is lost
OverwrittenOid(c, what, type) ==
  IF cms_set_content_type(c, what, type).err # "OK" THEN {}
  ELSE IF what = 0 /\ c.content.oid # <<>> THEN {"content.oid"}
  ELSE IF what = 1 /\ c.encap_cont_type # <<>> THEN {"encap_cont_type"}
  ELSE {}

\* ksba_cms_set_content_type; the strings it allocates and overwrites are
\* followed in heap.lost when followHeap is set (the call itself does not
\* depend on them)
SetContentType(followHeap) ==
  /\ Alive
  /\ \E what \in 0..2, type \in CallerTypes :
       /\ cms' = cms_set_content_type(cms, what, type).cms
       /\ heap' = IF followHeap
                    THEN [heap EXCEPT
                            !.lost = @ \cup OverwrittenOid(cms, what, type)]
                  ELSE heap
  /\ UNCHANGED <<out, hashed, last, log, aborted>>

ksba_cms_set_content_type == SetContentType(FALSE)

\* ksba_cms_add_digest_algo: the new node becomes the head of the list
\* variant: the new node is linked behind the last one
cms_add_digest_algo_Appends(c, oid) ==
  IF oid = <<>> THEN Ret(c, "KSBA_Invalid_Value")
  ELSE Ret([c EXCEPT !.digest_algos = @ \o <<oid>>], "OK")

cms_add_digest_algo(c, oid) ==
  IF oid = <<>> THEN Ret(c, "KSBA_Invalid_Value")
  ELSE Ret([c EXCEPT !.digest_algos = <<oid>> \o @], "OK")

AddDigestAlgo(Oids) ==
  /\ Alive
  /\ Len(cms.digest_algos) < MaxAlgos
  /\ \E oid \in Oids :
       cms' = cms_add_digest_algo(cms, oid).cms
  /\ UNCHANGED <<out, hashed, last, log, aborted, heap>>

ksba_cms_add_digest_algo == AddDigestAlgo(AlgoOids)

\* a zeroed certlist_s node holding the certificate
NewSigner(cert) ==
  [cert |-> cert, msg_digest |-> <<>>,
   attr |-> [root |-> FALSE, image |-> <<>>]]

\* ksba_cms_add_signer: the new node becomes the head of the list
cms_add_signer(c, cert) ==
  Ret([c EXCEPT !.cert_list = <<NewSigner(cert)>> \o @], "OK")

ksba_cms_add_signer ==
  /\ Alive
  /\ Len(cms.cert_list) < MaxSigners
  /\ cms' = cms_add_signer(cms, CertOf(Len(cms.cert_list) + 1)).cms
  /\ UNCHANGED <<out, hashed, last, log, aborted, heap>>

\* for (cl=cms->cert_list; cl && idx; cl = cl->next, idx--) ;
\* the position in the list the walk stops at, 0 when it runs off the end
WalkTo(list, idx) == IF idx + 1 <= Len(list) THEN idx + 1 ELSE 0

\* ksba_cms_set_message_digest
cms_set_message_digest(c, idx, digest) ==
  IF Len(digest) = 0 \/ Len(digest) > DIM_msg_digest
    THEN Ret(c, "KSBA_Invalid_Value")
  ELSE IF idx < 0 THEN Ret(c, "KSBA_Invalid_Index")
  ELSE IF WalkTo(c.cert_list, idx) = 0 THEN Ret(c, "KSBA_Invalid_Index")
  ELSE Ret([c EXCEPT !.cert_list[WalkTo(c.cert_list, idx)].msg_digest = digest],
           "OK")

\* the call with a digest out of the set D
SetMessageDigest(D) ==
  /\ Alive
  /\ \E idx \in -1..MaxSigners, digest \in D :
       cms' = cms_set_message_digest(cms, idx, digest).cms
  /\ UNCHANGED <<out, hashed, last, log, aborted, heap>>

ksba_cms_set_message_digest == SetMessageDigest(Digests)

\* variant: the certificate is returned and the node keeps it
cms_get_cert_KeepsCert(c, idx) ==
  LET pos == WalkTo(c.cert_list, idx)
  IN  IF idx < 0 \/ pos = 0 THEN [cms |-> c, cert |-> 0]
      ELSE [cms |-> c, cert |-> c.cert_list[pos].cert]

\* ksba_cms_get_cert: the certificate of the node the walk stops at moves
\* to the caller and the node keeps NULL
cms_get_cert(c, idx) ==
  LET pos == WalkTo(c.cert_list, idx)
  IN  IF idx < 0 \/ pos = 0 THEN [cms |-> c, cert |-> 0]
      ELSE [cms  |-> [c EXCEPT !.cert_list[pos].cert = 0],
            cert |-> c.cert_list[pos].cert]

ksba_cms_get_cert ==
  /\ Alive
  /\ Len(heap.got) < MaxGetCert
  /\ \E idx \in -1..MaxSigners :
       LET r == cms_get_cert(cms, idx)
       IN  /\ cms' = r.cms
           /\ heap' = [heap EXCEPT !.got =
                         Append(@, [idx |-> idx, cert |-> r.cert,
                                    signers |-> Len(cms.cert_list)])]
  /\ UNCHANGED <<out, hashed, last, log, aborted>>

\* ksba_cms_release: the certificates ksba_cert_release is called with (a
\* NULL certificate is not an object that gets released)
ReleasedCerts(c) ==
  {c.cert_list[i].cert : i \in 1..Len(c.cert_list)} \ {0}

ksba_cms_release ==
  /\ Alive
  /\ heap' = [heap EXCEPT !.released = ReleasedCerts(cms), !.freed = TRUE]
  /\ UNCHANGED <<cms, out, hashed, last, log, aborted>>

-----------------------------------------------------------------------------
(* The writer, as the builder sees it *)

\* one step of a builder routine: a write of some bytes, or a failure of
\* something that is no write (err # "OK")
W(bytes) == [err |-> "OK", bytes |-> bytes]
F(err)   == [err |-> err, bytes |-> <<>>]

\* The steps of a routine run in order until the first error.  A NULL writer
\* refuses every write; wfail > 0 makes the wfail-th write of the call fail
\* (n counts the writes).  The result is the error and the bytes accepted.
RECURSIVE RunWrites(_, _, _, _)
RunWrites(steps, writer, wfail, n) ==
  IF steps = <<>> THEN [err |-> "OK", bytes |-> <<>>]
  ELSE LET s == Head(steps)
       IN  IF s.err # "OK" THEN [err |-> s.err, bytes |-> <<>>]
           ELSE IF writer = 0
                THEN [err |-> "KSBA_Invalid_Value", bytes |-> <<>>]
           ELSE IF n = wfail
                THEN [err |-> "KSBA_Write_Error", bytes |-> <<>>]
           ELSE LET r == RunWrites(Tail(steps), writer, wfail, n + 1)
                IN  [err |-> r.err, bytes |-> s.bytes \o r.bytes]

\* err = ksba_oid_from_str (oid, &buf, &len);
\* err = _ksba_ber_write_tl (writer, TYPE_OBJECT_ID, CLASS_UNIVERSAL, 0, len);
\* if (!err) err = ksba_writer_write (writer, buf, len);
WriteOid(oid) ==
  IF oid = <<>> THEN << F("KSBA_Invalid_Value") >>
  ELSE << W(ber_write_tl(TYPE_OBJECT_ID, CLASS_UNIVERSAL, FALSE,
                         Len(ksba_oid_from_str(oid)))),
          W(ksba_oid_from_str(oid)) >>

\* the CMSVersion the header carries: the condition of the code is the
\* literal 1, so the version is always 3
CMSVersion == 3

\* for (i=0; (s = ksba_cms_get_digest_algo_list (cms, i)); i++)
\*   err = _ksba_der_write_algorithm_identifier (cms->writer, s);
RECURSIVE WriteAlgos(_)
WriteAlgos(algos) ==
  IF algos = <<>> THEN <<>>
  ELSE <<W(der_algorithm_identifier(Head(algos)))>> \o WriteAlgos(Tail(algos))

\* the length the header gives the digestAlgorithms SET
DigestSetLength == 11

\* the inner [0] tag of the encapsulated content, written unless the
\* signature is detached
InnerContentTag(detached) ==
  IF detached THEN <<>>
  ELSE << W(ber_write_tl(0, CLASS_CONTEXT, TRUE, 0)) >>

\* build_signed_data_header: the steps, in the order of the code
HeaderSteps(c) ==
     << W(ber_write_tl(TYPE_SEQUENCE, CLASS_UNIVERSAL, TRUE, 0)) >>
  \o WriteOid(c.content.oid)
  \o << W(ber_write_tl(0, CLASS_CONTEXT, TRUE, 0)),
        W(ber_write_tl(TYPE_SEQUENCE, CLASS_UNIVERSAL, TRUE, 0)),
        W(ber_write_tl(TYPE_INTEGER, CLASS_UNIVERSAL, FALSE, 1)),
        W(<<CMSVersion>>),
        W(ber_write_tl(TYPE_SET, CLASS_UNIVERSAL, TRUE, DigestSetLength)) >>
  \o WriteAlgos(c.digest_algos)
  \o << W(ber_write_tl(TYPE_SEQUENCE, CLASS_UNIVERSAL, TRUE, 0)) >>
  \o WriteOid(c.encap_cont_type)
  \o InnerContentTag(c.detached_signature)

build_signed_data_header(c, wfail) ==
  LET r == RunWrites(HeaderSteps(c), c.writer, wfail, 1)
  IN  [cms |-> c, err |-> r.err, bytes |-> r.bytes, step |-> "header"]

-----------------------------------------------------------------------------
(* The signed attributes and the SignerInfo of one signer *)

\* the issuer and the serialNumber sub-trees of a certificate, as DER
CertIssuer(cert) == TLV(48, <<cert>>)
CertSerial(cert) == TLV(TYPE_INTEGER, <<cert>>)

\* the DER image of the Attribute tree of one signer:
\* SEQUENCE { attrType messageDigest, attrValues SET { OCTET STRING } }
AttributeImage(digest) ==
  TLV(48, TLV(TYPE_OBJECT_ID, ksba_oid_from_str(oidstr_messageDigest))
          \o TLV(49, TLV(TYPE_OCTET_STRING, digest)))

\* the DER image of a SignerInfos tree that holds only the signedAttrs:
\* SET OF { SEQUENCE { [0] { Attribute } } }
AttrSignerInfoImage(attrImage) == TLV(49, TLV(48, TLV(160, attrImage)))

\* build_signed_data_attributes, the loop over the signers from list
\* position i on; the digest list is walked in step with the signers
\* variant: the attribute tree of a signer is kept before its image exists
RECURSIVE AttributesLoop_RootBeforeImage(_, _)
AttributesLoop_RootBeforeImage(c, i) ==
  IF i > Len(c.cert_list) THEN [cms |-> c, err |-> "OK"]
  ELSE LET c0 == [c EXCEPT !.cert_list[i].attr.root = TRUE]
       IN  IF i > Len(c.digest_algos)
             THEN [cms |-> c0, err |-> "KSBA_Missing_Value"]
           ELSE IF c.cert_list[i].cert = 0 \/ c.digest_algos[i] = <<>>
             THEN [cms |-> c0, err |-> "KSBA_Bug"]
           ELSE IF Len(c.cert_list[i].msg_digest) = 0
             THEN [cms |-> c0, err |-> "ABORT"]
           ELSE LET image == AttributeImage(c.cert_list[i].msg_digest)
                    c1 == [c EXCEPT !.cert_list[i].attr =
                                      [root |-> TRUE, image |-> image],
                                    !.signer_info =
                                      [root |-> TRUE,
                                       image |-> AttrSignerInfoImage(image)]]
                IN  AttributesLoop_RootBeforeImage(c1, i + 1)

RECURSIVE AttributesLoop(_, _)
AttributesLoop(c, i) ==
  IF i > Len(c.cert_list) THEN [cms |-> c, err |-> "OK"]
  ELSE IF i > Len(c.digest_algos)
       THEN [cms |-> c, err |-> "KSBA_Missing_Value"]
  ELSE IF c.cert_list[i].cert = 0 \/ c.digest_algos[i] = <<>>
       THEN [cms |-> c, err |-> "KSBA_Bug"]
  ELSE IF Len(c.cert_list[i].msg_digest) = 0
       THEN [cms |-> c, err |-> "ABORT"]
  ELSE LET image == AttributeImage(c.cert_list[i].msg_digest)
           c1 == [c EXCEPT !.cert_list[i].attr =
                             [root |-> TRUE, image |-> image],
                           !.signer_info =
                             [root |-> TRUE,
                              image |-> AttrSignerInfoImage(image)]]
       IN  AttributesLoop(c1, i + 1)

build_signed_data_attributes(c, wfail) ==
  LET w == RunWrites(<< W(ber_write_tl(0, 0, FALSE, 0)) >>, c.writer, wfail, 1)
      res(cc, err) == [cms |-> cc, err |-> err, bytes |-> w.bytes,
                       step |-> "attributes"]
  IN  IF w.err # "OK" THEN res(c, w.err)
      ELSE IF c.cert_list = <<>> THEN res(c, "KSBA_Missing_Value")
      ELSE IF c.digest_algos = <<>> THEN res(c, "KSBA_Missing_Value")
      ELSE LET l == AttributesLoop(c, 1) IN res(l.cms, l.err)

\* the signature the code stores: the literal "xxxxx"
PlaceholderSignature == <<120, 120, 120, 120, 120>>

\* the DER image of the complete SignerInfos tree of one signer; the first
\* byte of the first signer's image is overwritten with 0xa0
SignerInfoImage(signer, cl, algo) ==
  LET body ==    TLV(TYPE_INTEGER, <<1>>)
              \o TLV(48, CertIssuer(cl.cert) \o CertSerial(cl.cert))
              \o der_algorithm_identifier(algo)
              \o TLV(160, cl.attr.image)
              \o der_algorithm_identifier(algo)
              \o TLV(TYPE_OCTET_STRING, PlaceholderSignature)
      image == TLV(49, TLV(48, body))
  IN  IF signer = 0 /\ Len(image) # 0 THEN <<160>> \o Tail(image) ELSE image

\* build_signed_data_rest, the loop over the signers from list position i on
RECURSIVE RestLoop(_, _)
RestLoop(c, i) ==
  IF i > Len(c.cert_list) THEN <<>>
  ELSE IF i > Len(c.digest_algos) THEN << F("KSBA_Missing_Value") >>
  ELSE IF c.cert_list[i].cert = 0 \/ c.digest_algos[i] = <<>>
       THEN << F("KSBA_Bug") >>
  ELSE IF ~c.cert_list[i].attr.root \/ c.cert_list[i].attr.image = <<>>
       THEN << F("ABORT") >>
  ELSE << W(SignerInfoImage(i - 1, c.cert_list[i], c.digest_algos[i])) >>
       \o RestLoop(c, i + 1)

RestSteps(c) ==
  IF c.cert_list = <<>> THEN << F("KSBA_Missing_Value") >>
  ELSE IF c.digest_algos = <<>> THEN << F("KSBA_Missing_Value") >>
  ELSE RestLoop(c, 1)
       \o << W(ber_write_tl(0, 0, FALSE, 0)), W(ber_write_tl(0, 0, FALSE, 0)) >>

build_signed_data_rest(c, wfail) ==
  LET r == RunWrites(RestSteps(c), c.writer, wfail, 1)
  IN  [cms |-> c, err |-> r.err, bytes |-> r.bytes, step |-> "rest"]

-----------------------------------------------------------------------------
(* What one engine call meets outside the container *)

\* the content-type OIDs an input stream may carry in its ContentInfo
InputOids == {OID_signedData, OID_data, OID_authData, OID_unknown}

\* ok: the bytes the reader delivers to this call are well-formed (and the
\*     reader delivers them); oid: the contentType of the outer ContentInfo;
\* detached: the encapsulated ContentInfo carries no content;
\* digest: the parser recovers a digest of the data;
\* wfail: the write of this call that the writer refuses (0: none)
EngineInputs ==
  [ok : BOOLEAN, oid : InputOids, detached : BOOLEAN, digest : BOOLEAN,
   wfail : 0..MaxFailPoint]

\* The inputs a call can tell apart: a field the call never reads keeps its
\* first value.  ksba_cms_parse reads the ContentInfo in the initial state;
\* ct_parse_signed_data reads in sSTART and sGOT_HASH; ct_build_signed_data
\* writes in each of its states.
InputsOf(op, c) ==
  LET sr == c.stop_reason
      h  == c.content.handler
      readsOid  == op = "ksba_cms_parse" /\ sr = "NONE"
      readsBody == h = "ct_parse_signed_data" /\ sr = "KSBA_SR_GOT_CONTENT"
      readsMore == h = "ct_parse_signed_data"
                   /\ sr \in {"KSBA_SR_NEED_HASH", "KSBA_SR_END_DATA"}
      writes    == h = "ct_build_signed_data"
                   /\ sr \in {"KSBA_SR_GOT_CONTENT", "KSBA_SR_BEGIN_DATA",
                              "KSBA_SR_END_DATA", "KSBA_SR_NEED_SIG"}
  IN  { in \in EngineInputs :
          /\ readsOid \/ readsBody \/ readsMore \/ in.ok
          /\ readsOid \/ in.oid = OID_signedData
          /\ readsBody \/ (~in.detached /\ ~in.digest)
          /\ writes \/ in.wfail = 0 }

\* _ksba_cms_parse_content_info: reads the outer ContentInfo and stores its
\* contentType in content.oid
cms_parse_content_info(c, in) ==
  IF c.reader = 0
    THEN [cms |-> c, err |-> "KSBA_Invalid_Value", bytes |-> <<>>,
          step |-> "content_info"]
  ELSE IF ~in.ok
    THEN [cms |-> c, err |-> "KSBA_Read_Error", bytes |-> <<>>,
          step |-> "content_info"]
  ELSE [cms |-> [c EXCEPT !.content.oid = in.oid], err |-> "OK",
        bytes |-> <<>>, step |-> "content_info"]

\* _ksba_cms_parse_signed_data_part_1: version, digestAlgorithms and the
\* header of the encapsulated ContentInfo
cms_parse_signed_data_part_1(c, in) ==
  IF c.reader = 0
    THEN [cms |-> c, err |-> "KSBA_Invalid_Value", bytes |-> <<>>,
          step |-> "part_1"]
  ELSE IF ~in.ok
    THEN [cms |-> c, err |-> "KSBA_Read_Error", bytes |-> <<>>,
          step |-> "part_1"]
  ELSE [cms |-> [c EXCEPT !.digest_algos = <<OID_sha1>> \o @,
                          !.encap_cont_type = OID_data,
                          !.detached_signature = in.detached,
                          !.data_digest = in.digest],
        err |-> "OK", bytes |-> <<>>, step |-> "part_1"]

\* the SignerInfos block of the input, as the parser stores it
ParsedSignerInfoImage == AttrSignerInfoImage(AttributeImage(<<17>>))

\* _ksba_cms_parse_signed_data_part_2: the SignerInfos block
cms_parse_signed_data_part_2(c, in) ==
  IF c.reader = 0
    THEN [cms |-> c, err |-> "KSBA_Invalid_Value", bytes |-> <<>>,
          step |-> "part_2"]
  ELSE IF ~in.ok
    THEN [cms |-> c, err |-> "KSBA_Read_Error", bytes |-> <<>>,
          step |-> "part_2"]
  ELSE [cms |-> [c EXCEPT !.signer_info =
                   [root |-> TRUE, image |-> ParsedSignerInfoImage]],
        err |-> "OK", bytes |-> <<>>, step |-> "part_2"]

-----------------------------------------------------------------------------
(* ct_parse_signed_data *)

\* "Calculate state from last reason and do some checks"
\* variant: the data round is entered without asking for the hash function
ParseState_NoHashCheck(stop_reason, hash_fnc) ==
  IF stop_reason = "KSBA_SR_GOT_CONTENT"
    THEN [state |-> "sSTART", err |-> "OK"]
  ELSE IF stop_reason = "KSBA_SR_NEED_HASH"
    THEN [state |-> "sGOT_HASH", err |-> "OK"]
  ELSE IF stop_reason = "KSBA_SR_BEGIN_DATA"
    THEN [state |-> "sIN_DATA", err |-> "OK"]
  ELSE IF stop_reason = "KSBA_SR_END_DATA"
    THEN [state |-> "sGOT_HASH", err |-> "OK"]
  ELSE IF stop_reason = "KSBA_SR_RUNNING"
    THEN [state |-> "sERROR", err |-> "KSBA_Invalid_State"]
  ELSE IF stop_reason # "NONE"
    THEN [state |-> "sERROR", err |-> "KSBA_Bug"]
  ELSE [state |-> "sERROR", err |-> "OK"]

\* variant: no branch for RUNNING, which falls through to the internal error
ParseState_NoRunningBranch(stop_reason, hash_fnc) ==
  IF stop_reason = "KSBA_SR_GOT_CONTENT"
    THEN [state |-> "sSTART", err |-> "OK"]
  ELSE IF stop_reason = "KSBA_SR_NEED_HASH"
    THEN [state |-> "sGOT_HASH", err |-> "OK"]
  ELSE IF stop_reason = "KSBA_SR_BEGIN_DATA"
    THEN IF ~hash_fnc THEN [state |-> "sERROR", err |-> "KSBA_Missing_Action"]
         ELSE [state |-> "sIN_DATA", err |-> "OK"]
  ELSE IF stop_reason = "KSBA_SR_END_DATA"
    THEN [state |-> "sGOT_HASH", err |-> "OK"]
  ELSE IF stop_reason # "NONE"
    THEN [state |-> "sERROR", err |-> "KSBA_Bug"]
  ELSE [state |-> "sERROR", err |-> "OK"]

ParseState(stop_reason, hash_fnc) ==
  IF stop_reason = "KSBA_SR_GOT_CONTENT"
    THEN [state |-> "sSTART", err |-> "OK"]
  ELSE IF stop_reason = "KSBA_SR_NEED_HASH"
    THEN [state |-> "sGOT_HASH", err |-> "OK"]
  ELSE IF stop_reason = "KSBA_SR_BEGIN_DATA"
    THEN IF ~hash_fnc THEN [state |-> "sERROR", err |-> "KSBA_Missing_Action"]
         ELSE [state |-> "sIN_DATA", err |-> "OK"]
  ELSE IF stop_reason = "KSBA_SR_END_DATA"
    THEN [state |-> "sGOT_HASH", err |-> "OK"]
  ELSE IF stop_reason = "KSBA_SR_RUNNING"
    THEN [state |-> "sERROR", err |-> "KSBA_Invalid_State"]
  ELSE IF stop_reason # "NONE"
    THEN [state |-> "sERROR", err |-> "KSBA_Bug"]
  ELSE [state |-> "sERROR", err |-> "OK"]

\* "Do the action"
ParseAction(state, c, in) ==
  IF state = "sSTART" THEN cms_parse_signed_data_part_1(c, in)
  ELSE IF state = "sGOT_HASH" THEN cms_parse_signed_data_part_2(c, in)
  ELSE IF state = "sIN_DATA"
    THEN [cms |-> c, err |-> "OK", bytes |-> <<>>, step |-> "in_data"]
  ELSE Ret(c, "KSBA_Invalid_State")

\* variant: after the data the handler returns without the final assignment
ParseNextStopReason_NoFinalAssignment(state, c, stop_reason) ==
  IF state = "sSTART"
    THEN IF c.detached_signature /\ ~c.data_digest THEN "KSBA_SR_NEED_HASH"
         ELSE "KSBA_SR_BEGIN_DATA"
  ELSE IF state = "sIN_DATA" THEN "KSBA_SR_RUNNING"
  ELSE IF state = "sGOT_HASH" THEN "KSBA_SR_READY"
  ELSE stop_reason

\* variant: the data round is taken for the last one
ParseNextStopReason_DataEnds(state, c, stop_reason) ==
  IF state = "sSTART"
    THEN IF c.detached_signature /\ ~c.data_digest THEN "KSBA_SR_NEED_HASH"
         ELSE "KSBA_SR_BEGIN_DATA"
  ELSE "KSBA_SR_READY"

\* variant: a detached signature asks for the hash whether or not a digest
\* is at hand
ParseNextStopReason_IgnoresDigest(state, c, stop_reason) ==
  IF state = "sSTART"
    THEN IF c.detached_signature THEN "KSBA_SR_NEED_HASH"
         ELSE "KSBA_SR_BEGIN_DATA"
  ELSE IF state = "sIN_DATA" THEN "KSBA_SR_END_DATA"
  ELSE IF state = "sGOT_HASH" THEN "KSBA_SR_READY"
  ELSE stop_reason

\* "Calculate new stop reason"
ParseNextStopReason(state, c, stop_reason) ==
  IF state = "sSTART"
    THEN IF c.detached_signature /\ ~c.data_digest THEN "KSBA_SR_NEED_HASH"
         ELSE "KSBA_SR_BEGIN_DATA"
  ELSE IF state = "sIN_DATA" THEN "KSBA_SR_END_DATA"
  ELSE IF state = "sGOT_HASH" THEN "KSBA_SR_READY"
  ELSE stop_reason

\* variant: the error paths put the stop reason of the entry back
StopReasonOnError_Restores(entry) == entry

\* the stop reason a handler that returns an error leaves in the container
StopReasonOnError(entry) == "KSBA_SR_RUNNING"

ct_parse_signed_data(c, in) ==
  LET stop_reason == c.stop_reason
      c1 == [c EXCEPT !.stop_reason = "KSBA_SR_RUNNING"]
      st == ParseState(stop_reason, c.hash_fnc)
      a  == ParseAction(st.state, c1, in)
  IN  IF st.err # "OK"
        THEN Ret([c1 EXCEPT !.stop_reason = StopReasonOnError(stop_reason)],
                 st.err)
      ELSE IF a.err # "OK"
        THEN [a EXCEPT !.cms.stop_reason = StopReasonOnError(stop_reason)]
      ELSE [a EXCEPT !.cms.stop_reason =
                       ParseNextStopReason(st.state, a.cms, stop_reason)]

-----------------------------------------------------------------------------
(* ct_build_signed_data *)

\* "Calculate state from last reason and do some checks"
\* variant: NEED_HASH is taken for the end of the data
BuildState_NeedHashIsDataReady(stop_reason) ==
  IF stop_reason = "KSBA_SR_GOT_CONTENT"
    THEN [state |-> "sSTART", err |-> "OK"]
  ELSE IF stop_reason \in {"KSBA_SR_BEGIN_DATA", "KSBA_SR_END_DATA",
                           "KSBA_SR_NEED_HASH"}
    THEN [state |-> "sDATAREADY", err |-> "OK"]
  ELSE IF stop_reason = "KSBA_SR_NEED_SIG"
    THEN [state |-> "sGOTSIG", err |-> "OK"]
  ELSE IF stop_reason = "KSBA_SR_RUNNING"
    THEN [state |-> "sERROR", err |-> "KSBA_Invalid_State"]
  ELSE IF stop_reason # "NONE"
    THEN [state |-> "sERROR", err |-> "KSBA_Bug"]
  ELSE [state |-> "sERROR", err |-> "OK"]

\* variant: a complete build starts over
BuildState_ReadyIsStart(stop_reason) ==
  IF stop_reason \in {"KSBA_SR_GOT_CONTENT", "KSBA_SR_READY"}
    THEN [state |-> "sSTART", err |-> "OK"]
  ELSE IF stop_reason \in {"KSBA_SR_BEGIN_DATA", "KSBA_SR_END_DATA"}
    THEN [state |-> "sDATAREADY", err |-> "OK"]
  ELSE IF stop_reason = "KSBA_SR_NEED_SIG"
    THEN [state |-> "sGOTSIG", err |-> "OK"]
  ELSE IF stop_reason = "KSBA_SR_RUNNING"
    THEN [state |-> "sERROR", err |-> "KSBA_Invalid_State"]
  ELSE IF stop_reason # "NONE"
    THEN [state |-> "sERROR", err |-> "KSBA_Bug"]
  ELSE [state |-> "sERROR", err |-> "OK"]

BuildState(stop_reason) ==
  IF stop_reason = "KSBA_SR_GOT_CONTENT"
    THEN [state |-> "sSTART", err |-> "OK"]
  ELSE IF stop_reason = "KSBA_SR_BEGIN_DATA"
    THEN [state |-> "sDATAREADY", err |-> "OK"]
  ELSE IF stop_reason = "KSBA_SR_END_DATA"
    THEN [state |-> "sDATAREADY", err |-> "OK"]
  ELSE IF stop_reason = "KSBA_SR_NEED_SIG"
    THEN [state |-> "sGOTSIG", err |-> "OK"]
  ELSE IF stop_reason = "KSBA_SR_RUNNING"
    THEN [state |-> "sERROR", err |-> "KSBA_Invalid_State"]
  ELSE IF stop_reason # "NONE"
    THEN [state |-> "sERROR", err |-> "KSBA_Bug"]
  ELSE [state |-> "sERROR", err |-> "OK"]

\* "figure out whether a detached signature is requested"
DetachedRequested(cert_list) ==
  cert_list # <<>> /\ Len(cert_list[1].msg_digest) # 0

\* "Do the action"
BuildAction(state, c, in) ==
  IF state = "sSTART"
    THEN build_signed_data_header(
           [c EXCEPT !.detached_signature = DetachedRequested(c.cert_list)],
           in.wfail)
  ELSE IF state = "sDATAREADY" THEN build_signed_data_attributes(c, in.wfail)
  ELSE IF state = "sGOTSIG" THEN build_signed_data_rest(c, in.wfail)
  ELSE Ret(c, "KSBA_Invalid_State")

\* variant: the build is taken for complete once the attributes are out
BuildNextStopReason_SkipsSig(state, c, stop_reason) ==
  IF state = "sSTART"
    THEN IF c.detached_signature THEN "KSBA_SR_END_DATA"
         ELSE "KSBA_SR_BEGIN_DATA"
  ELSE "KSBA_SR_READY"

\* "Calculate new stop reason"
BuildNextStopReason(state, c, stop_reason) ==
  IF state = "sSTART"
    THEN IF c.detached_signature THEN "KSBA_SR_END_DATA"
         ELSE "KSBA_SR_BEGIN_DATA"
  ELSE IF state = "sDATAREADY" THEN "KSBA_SR_NEED_SIG"
  ELSE IF state = "sGOTSIG" THEN "KSBA_SR_READY"
  ELSE stop_reason

ct_build_signed_data(c, in) ==
  LET stop_reason == c.stop_reason
      c1 == [c EXCEPT !.stop_reason = "KSBA_SR_RUNNING"]
      st == BuildState(stop_reason)
      a  == BuildAction(st.state, c1, in)
  IN  IF st.err # "OK"
        THEN Ret([c1 EXCEPT !.stop_reason = StopReasonOnError(stop_reason)],
                 st.err)
      ELSE IF a.err # "OK"
        THEN [a EXCEPT !.cms.stop_reason = StopReasonOnError(stop_reason)]
      ELSE [a EXCEPT !.cms.stop_reason =
                       BuildNextStopReason(st.state, a.cms, stop_reason)]

\* err = cms->content.handler (cms): the handlers of the other content
\* types are stubs
CallHandler(handler, c, in) ==
  IF handler = "ct_parse_signed_data" THEN ct_parse_signed_data(c, in)
  ELSE IF handler = "ct_build_signed_data" THEN ct_build_signed_data(c, in)
  ELSE Ret(c, "KSBA_Not_Implemented")

-----------------------------------------------------------------------------
(* ksba_cms_hash_signed_attrs *)

\* the offset of the first object with the given tag among the objects laid
\* out one after the other from offset off on; -1 when there is none
RECURSIVE FindElement(_, _, _)
FindElement(image, off, tag) ==
  IF off + 2 > Len(image) THEN -1
  ELSE IF image[off + 1] = tag THEN off
  ELSE FindElement(image, off + 2 + image[off + 2], tag)

\* _ksba_asn_find_node (root, "SignerInfos..signedAttrs") on a tree encoded
\* as SET OF { SEQUENCE { ... } }: the node with its offset in the image, the
\* length of its header and the length of its content
FindSignedAttrs(info) ==
  IF ~info.root THEN [found |-> FALSE, off |-> -1, nhdr |-> 0, len |-> 0]
  ELSE LET off == FindElement(info.image, 4, 160)
       IN  IF off = -1
             THEN [found |-> TRUE, off |-> -1, nhdr |-> 0, len |-> 0]
           ELSE [found |-> TRUE, off |-> off, nhdr |-> 2,
                 len |-> info.image[off + 2]]

\* the region the second callback invocation is given:
\* image + n->off + 1, n->nhdr + n->len - 1
\* variant: the region starts at the tag octet
HashedRegion_FromTag(image, n) ==
  SubSeq(image, n.off + 1, n.off + n.nhdr + n.len - 1)

HashedRegion(image, n) ==
  SubSeq(image, n.off + 2, n.off + n.nhdr + n.len)

\* ksba_cms_hash_signed_attrs; calls: the chunks handed to hash_fnc
\* variant: the node is not looked at before it is hashed
cms_hash_signed_attrs_NoNodeCheck(c, idx) ==
  LET n == FindSignedAttrs(c.signer_info)
      res(err, calls) == [cms |-> c, err |-> err, calls |-> calls]
  IN  IF ~c.hash_fnc THEN res("KSBA_Missing_Action", <<>>)
      ELSE IF idx # 0 THEN res("-1", <<>>)
      ELSE IF ~n.found \/ n.off = -1 THEN res("OK", << <<49>>, <<>> >>)
      ELSE res("OK", << <<49>>, HashedRegion(c.signer_info.image, n) >>)

cms_hash_signed_attrs(c, idx) ==
  LET n == FindSignedAttrs(c.signer_info)
      res(err, calls) == [cms |-> c, err |-> err, calls |-> calls]
  IN  IF ~c.hash_fnc THEN res("KSBA_Missing_Action", <<>>)
      ELSE IF idx # 0 THEN res("-1", <<>>)
      ELSE IF ~n.found \/ n.off = -1 THEN res("KSBA_No_Value", <<>>)
      ELSE res("OK", << <<49>>, HashedRegion(c.signer_info.image, n) >>)

ksba_cms_hash_signed_attrs ==
  /\ Alive
  /\ \E idx \in 0..1 :
       LET r == cms_hash_signed_attrs(cms, idx)
       IN  hashed' = IF r.calls # <<>> THEN r.calls ELSE hashed
  /\ UNCHANGED <<cms, out, last, log, aborted, heap>>

-----------------------------------------------------------------------------
(* The accessors of a parsed container *)

\* ksba_cms_get_digest_algo_list: the list is walked from its head
cms_get_digest_algo_list(c, idx) ==
  IF idx + 1 > Len(c.digest_algos) THEN <<>> ELSE c.digest_algos[idx + 1]

\* the offsets of the objects laid out one after the other from offset off
\* up to offset end of an image
RECURSIVE ElementsIn(_, _, _)
ElementsIn(image, off, end) ==
  IF off + 2 > end \/ off + 2 > Len(image) THEN <<>>
  ELSE <<off>> \o ElementsIn(image, off + 2 + image[off + 2], end)

\* the node of the tree at an offset of the image
NodeAt(image, off) ==
  IF off = -1 \/ off + 2 > Len(image)
    THEN [found |-> TRUE, off |-> -1, nhdr |-> 0, len |-> 0, type |-> 0]
  ELSE [found |-> TRUE, off |-> off, nhdr |-> 2, len |-> image[off + 2],
        type |-> image[off + 1]]

NoNode == [found |-> FALSE, off |-> -1, nhdr |-> 0, len |-> 0]

\* what _ksba_asn_find_node (root, "SignerInfos..signedAttrs") can return:
\* the node with its place in the image; for a SignerInfo without signedAttrs
\* either a node that has no place in the image (off == -1) or no node
FindNodeOutcomes(info) ==
  IF FindSignedAttrs(info).off = -1 /\ info.root
    THEN {FindSignedAttrs(info), NoNode}
  ELSE {FindSignedAttrs(info)}

\* the content octets of a node
NodeContent(image, n) == SubSeq(image, n.off + n.nhdr + 1, n.off + n.nhdr + n.len)

\* _ksba_asn_find_type_value below the node root: the value nodes of the
\* attributes whose type is the given OID, in the order of the image; the
\* call with index idx returns the entry idx + 1 or NULL
RECURSIVE ValuesOfType(_, _, _)
ValuesOfType(image, attrs, oid) ==
  IF attrs = <<>> THEN <<>>
  ELSE LET type == NodeAt(image, Head(attrs) + 2)
           value == NodeAt(image, type.off + type.nhdr + type.len)
       IN  (IF type.off # -1 /\ type.type = TYPE_OBJECT_ID
               /\ NodeContent(image, type) = oid
              THEN <<value>> ELSE <<>>)
           \o ValuesOfType(image, Tail(attrs), oid)

asn_find_type_value(image, root, oid) ==
  IF root.off = -1 THEN <<>>
  ELSE ValuesOfType(image,
                    ElementsIn(image, root.off + root.nhdr,
                               root.off + root.nhdr + root.len), oid)

\* n->type == TYPE_SET_OF && n->down && n->down->type == TYPE_OCTET_STRING
\* && !n->down->right
IsSetOfOneOctetString(image, n) ==
  LET down == NodeAt(image, IF n.len = 0 THEN -1 ELSE n.off + n.nhdr)
  IN  /\ n.off # -1
      /\ n.type = 49
      /\ down.off # -1
      /\ down.type = TYPE_OCTET_STRING
      /\ down.nhdr + down.len = n.len

\* ksba_cms_get_message_digest with the node find_node returned; ptr is what
\* *r_digest holds at the return: "untouched", "NULL" or "alloc"
\* variant: the shape of the value is looked at before the second attribute
cms_get_message_digest_ShapeFirst(c, idx, nsiginfo) ==
  LET image == c.signer_info.image
      vals == asn_find_type_value(image, nsiginfo, oid_messageDigest)
      res(err, ptr, digest) == [err |-> err, ptr |-> ptr, digest |-> digest]
  IN  IF ~c.signer_info.root THEN res("KSBA_No_Data", "untouched", <<>>)
      ELSE IF idx # 0 THEN res("KSBA_Not_Implemented", "untouched", <<>>)
      ELSE IF ~nsiginfo.found THEN res("OK", "NULL", <<>>)
      ELSE IF vals = <<>> THEN res("KSBA_Value_Not_Found", "NULL", <<>>)
      ELSE IF ~IsSetOfOneOctetString(image, vals[1])
        THEN res("KSBA_Invalid_CMS_Object", "NULL", <<>>)
      ELSE IF Len(vals) > 1 THEN res("KSBA_Duplicate_Value", "NULL", <<>>)
      ELSE res("OK", "alloc",
               NodeContent(image, NodeAt(image, vals[1].off + vals[1].nhdr)))

\* variant: a tree without the signedAttrs node is a missing value
cms_get_message_digest_AttrsRequired(c, idx, nsiginfo) ==
  LET image == c.signer_info.image
      vals == asn_find_type_value(image, nsiginfo, oid_messageDigest)
      res(err, ptr, digest) == [err |-> err, ptr |-> ptr, digest |-> digest]
  IN  IF ~c.signer_info.root THEN res("KSBA_No_Data", "untouched", <<>>)
      ELSE IF idx # 0 THEN res("KSBA_Not_Implemented", "untouched", <<>>)
      ELSE IF ~nsiginfo.found \/ vals = <<>>
        THEN res("KSBA_Value_Not_Found", "NULL", <<>>)
      ELSE IF Len(vals) > 1 THEN res("KSBA_Duplicate_Value", "NULL", <<>>)
      ELSE IF ~IsSetOfOneOctetString(image, vals[1])
        THEN res("KSBA_Invalid_CMS_Object", "NULL", <<>>)
      ELSE res("OK", "alloc",
               NodeContent(image, NodeAt(image, vals[1].off + vals[1].nhdr)))

cms_get_message_digest(c, idx, nsiginfo) ==
  LET image == c.signer_info.image
      vals == asn_find_type_value(image, nsiginfo, oid_messageDigest)
      res(err, ptr, digest) == [err |-> err, ptr |-> ptr, digest |-> digest]
  IN  IF ~c.signer_info.root THEN res("KSBA_No_Data", "untouched", <<>>)
      ELSE IF idx # 0 THEN res("KSBA_Not_Implemented", "untouched", <<>>)
      ELSE IF ~nsiginfo.found THEN res("OK", "NULL", <<>>)
      ELSE IF vals = <<>> THEN res("KSBA_Value_Not_Found", "NULL", <<>>)
      ELSE IF Len(vals) > 1 THEN res("KSBA_Duplicate_Value", "NULL", <<>>)
      ELSE IF ~IsSetOfOneOctetString(image, vals[1])
        THEN res("KSBA_Invalid_CMS_Object", "NULL", <<>>)
      ELSE res("OK", "alloc",
               NodeContent(image, NodeAt(image, vals[1].off + vals[1].nhdr)))

\* _ksba_asn_find_node for "SignerInfos..sid.issuerAndSerialNumber": the
\* first SEQUENCE among the fields of the SignerInfo
FindSid(info) == NodeAt(info.image, FindElement(info.image, 4, 48))

\* ksba_cms_get_issuer_serial with both output pointers given: idx takes no
\* part; the issuer stands for the string _ksba_dn_to_str makes of the Name,
\* the serial is the content of the INTEGER behind a four byte length
cms_get_issuer_serial(c, idx) ==
  LET image == c.signer_info.image
      sid == FindSid(c.signer_info)
      issuer == NodeAt(image, IF sid.off = -1 \/ sid.len = 0 THEN -1
                              ELSE sid.off + sid.nhdr)
      serial == NodeAt(image, IF issuer.off = -1 THEN -1
                              ELSE issuer.off + issuer.nhdr + issuer.len)
      res(err, i, s) == [err |-> err, issuer |-> i, serial |-> s]
  IN  IF ~c.signer_info.root THEN res("KSBA_No_Data", <<>>, <<>>)
      ELSE IF issuer.off = -1 THEN res("KSBA_General_Error", <<>>, <<>>)
      ELSE IF serial.off = -1
        THEN res("KSBA_General_Error", NodeContent(image, issuer), <<>>)
      ELSE res("OK", NodeContent(image, issuer),
               << (serial.len \div 16777216) % 256,
                  (serial.len \div 65536) % 256,
                  (serial.len \div 256) % 256, serial.len % 256 >>
               \o NodeContent(image, serial))

ksba_cms_get_digest_algo_list ==
  /\ Alive
  /\ \E idx \in 0..MaxAlgos :
       last' = [op |-> "ksba_cms_get_digest_algo_list", idx |-> idx,
                algos |-> cms.digest_algos,
                oid |-> cms_get_digest_algo_list(cms, idx)]
  /\ UNCHANGED <<cms, out, hashed, log, aborted, heap>>

ksba_cms_get_message_digest ==
  /\ Alive
  /\ \E idx \in 0..1, n \in FindNodeOutcomes(cms.signer_info) :
       LET r == cms_get_message_digest(cms, idx, n)
       IN  last' = [op |-> "ksba_cms_get_message_digest", idx |-> idx,
                    node |-> n, err |-> r.err, ptr |-> r.ptr,
                    digest |-> r.digest]
  /\ UNCHANGED <<cms, out, hashed, log, aborted, heap>>

ksba_cms_get_issuer_serial ==
  /\ Alive
  /\ \E idx \in 0..1 :
       LET r == cms_get_issuer_serial(cms, idx)
       IN  last' = [op |-> "ksba_cms_get_issuer_serial", idx |-> idx,
                    err |-> r.err, issuer |-> r.issuer, serial |-> r.serial]
  /\ UNCHANGED <<cms, out, hashed, log, aborted, heap>>

-----------------------------------------------------------------------------
(* ksba_cms_parse and ksba_cms_build *)

\* variant: a table row is accepted without looking at its parse handler
cms_parse_NoHandlerCheck(c, in) ==
  IF c.stop_reason = "NONE"
    THEN LET r == cms_parse_content_info(c, in)
             i == RowOfOid(r.cms.content.oid)
         IN  IF r.err # "OK" THEN r
             ELSE IF i > Len(content_handlers)
               THEN [r EXCEPT !.err = "KSBA_Unknown_CMS_Object"]
             ELSE [r EXCEPT !.cms.content.ct = content_handlers[i].ct,
                            !.cms.content.handler =
                               content_handlers[i].parse_handler,
                            !.cms.stop_reason = "KSBA_SR_GOT_CONTENT"]
  ELSE IF c.content.handler # "NULL"
    THEN CallHandler(c.content.handler, c, in)
  ELSE Ret(c, "KSBA_Unsupported_CMS_Object")

cms_parse(c, in) ==
  IF c.stop_reason = "NONE"
    THEN LET r == cms_parse_content_info(c, in)
             i == RowOfOid(r.cms.content.oid)
         IN  IF r.err # "OK" THEN r
             ELSE IF i > Len(content_handlers)
               THEN [r EXCEPT !.err = "KSBA_Unknown_CMS_Object"]
             ELSE IF content_handlers[i].parse_handler = "NULL"
               THEN [r EXCEPT !.err = "KSBA_Unsupported_CMS_Object"]
             ELSE [r EXCEPT !.cms.content.ct = content_handlers[i].ct,
                            !.cms.content.handler =
                               content_handlers[i].parse_handler,
                            !.cms.stop_reason = "KSBA_SR_GOT_CONTENT"]
  ELSE IF c.content.handler # "NULL"
    THEN CallHandler(c.content.handler, c, in)
  ELSE Ret(c, "KSBA_Unsupported_CMS_Object")

\* variant: the inner content type is not asked for
BuildPrerequisites_NoInnerType(c) ==
  IF c.writer = 0 THEN "KSBA_Missing_Action"
  ELSE IF c.content.handler = "NULL" THEN "KSBA_Missing_Action"
  ELSE "OK"

\* the prerequisites ksba_cms_build checks in the initial state
BuildPrerequisites(c) ==
  IF c.writer = 0 THEN "KSBA_Missing_Action"
  ELSE IF c.content.handler = "NULL" THEN "KSBA_Missing_Action"
  ELSE IF c.encap_cont_type = <<>> THEN "KSBA_Missing_Action"
  ELSE "OK"

cms_build(c, in) ==
  IF c.stop_reason = "NONE"
    THEN IF BuildPrerequisites(c) # "OK" THEN Ret(c, BuildPrerequisites(c))
         ELSE Ret([c EXCEPT !.stop_reason = "KSBA_SR_GOT_CONTENT"], "OK")
  ELSE IF c.content.handler # "NULL"
    THEN CallHandler(c.content.handler, c, in)
  ELSE Ret(c, "KSBA_Unsupported_CMS_Object")

\* *r_stopreason = KSBA_SR_RUNNING; ... *r_stopreason = cms->stop_reason;
ReturnedStopReason(r) ==
  IF r.err = "OK" THEN r.cms.stop_reason ELSE "KSBA_SR_RUNNING"

\* the effect of an engine call on the model's variables; a failed
\* assert() ends the process in the middle of the call
EngineCall(op, r) ==
  IF r.err = "ABORT"
    THEN /\ aborted' = TRUE
         /\ cms' = r.cms
         /\ out' = out \o r.bytes
         /\ last' = Call(op, cms, r, "KSBA_SR_RUNNING")
         /\ UNCHANGED <<hashed, log, heap>>
    ELSE /\ cms' = r.cms
         /\ out' = out \o r.bytes
         /\ last' = Call(op, cms, r, ReturnedStopReason(r))
         /\ log' = IF r.err = "OK"
                     THEN Append(log, ReturnedStopReason(r))
                     ELSE log
         /\ UNCHANGED <<hashed, aborted, heap>>

ksba_cms_parse ==
  /\ Alive
  /\ \E in \in InputsOf("ksba_cms_parse", cms) :
       EngineCall("ksba_cms_parse", cms_parse(cms, in))

ksba_cms_build ==
  /\ Alive
  /\ \E in \in InputsOf("ksba_cms_build", cms) :
       EngineCall("ksba_cms_build", cms_build(cms, in))

-----------------------------------------------------------------------------
(* The specifications *)

Next ==
  \/ ksba_cms_set_reader_writer
  \/ ksba_cms_set_hash_function
  \/ ksba_cms_set_content_type
  \/ ksba_cms_add_digest_algo
  \/ ksba_cms_add_signer
  \/ ksba_cms_set_message_digest
  \/ ksba_cms_get_cert
  \/ ksba_cms_hash_signed_attrs
  \/ ksba_cms_parse
  \/ ksba_cms_build
  \/ ksba_cms_release

Spec == Init /\ [][Next]_vars

\* The calls of a caller that parses: it binds the streams, registers the
\* hash function and pumps ksba_cms_parse.
NextParse ==
  \/ ksba_cms_set_reader_writer
  \/ ksba_cms_set_hash_function
  \/ ksba_cms_parse

SpecParse == Init /\ [][NextParse]_vars

\* The calls of a caller that builds: it binds the streams, sets the content
\* types, registers digest algorithms and signers, supplies the message
\* digests and pumps ksba_cms_build.
NextBuild ==
  \/ ksba_cms_set_reader_writer
  \/ ksba_cms_set_content_type
  \/ ksba_cms_add_digest_algo
  \/ ksba_cms_add_signer
  \/ ksba_cms_set_message_digest
  \/ ksba_cms_build

SpecBuild == Init /\ [][NextBuild]_vars

\* The two engines on one container, in any interleaving with the calls that
\* bind the streams, register the hash function and set the content types
\* (so that either engine entry can meet the handler the other installed).
NextEngine ==
  \/ ksba_cms_set_reader_writer
  \/ ksba_cms_set_hash_function
  \/ ksba_cms_set_content_type
  \/ ksba_cms_parse
  \/ ksba_cms_build

SpecEngine == Init /\ [][NextEngine]_vars

\* The calls of a caller that parses and also sets content types: the
\* container leaves the initial state only through the initialisation of
\* ksba_cms_parse.
NextParseTypes ==
  \/ ksba_cms_set_reader_writer
  \/ ksba_cms_set_hash_function
  \/ ksba_cms_set_content_type
  \/ ksba_cms_parse

SpecParseTypes == Init /\ [][NextParseTypes]_vars

\* The calls that touch the list of signers, up to the release of the
\* container.
NextSigners ==
  \/ ksba_cms_add_signer
  \/ ksba_cms_set_message_digest
  \/ ksba_cms_get_cert
  \/ ksba_cms_release

SpecSigners == Init /\ [][NextSigners]_vars

\* A caller that signs.  It has bound a writer, registered its hash function
\* and set the outer type to signed-data and the inner type to data; from
\* there it registers digest algorithms and signers, supplies message
\* digests (the digests of different signers may differ), hashes the signed
\* attributes and pumps ksba_cms_build.
SignDigests == {<<17>>, <<18>>}

SignSetup ==
  LET c1 == cms_set_reader_writer(ksba_cms_new, 0,
                                  CHOOSE w \in Writers : TRUE).cms
      c2 == cms_set_hash_function(c1, TRUE).cms
      c3 == cms_set_content_type(c2, 0, "KSBA_CT_SIGNED_DATA").cms
  IN  cms_set_content_type(c3, 1, "KSBA_CT_DATA").cms

InitSign ==
  /\ cms = SignSetup
  /\ out = <<>>
  /\ hashed = <<>>
  /\ last = Call("ksba_cms_new", ksba_cms_new, Ret(ksba_cms_new, "OK"), "NONE")
  /\ log = <<>>
  /\ aborted = FALSE
  /\ heap = NewHeap

NextSign ==
  \/ ksba_cms_add_digest_algo
  \/ ksba_cms_add_signer
  \/ SetMessageDigest(SignDigests)
  \/ ksba_cms_hash_signed_attrs
  \/ ksba_cms_build

SpecSign == InitSign /\ [][NextSign]_vars

\* A caller that reads a parsed container.  The container is either fresh or
\* has parsed a signed-data object to the end; the SignerInfo the parser
\* stored has no signedAttrs or up to MaxAttrs attributes: messageDigest
\* attributes of the right and of wrong shapes and attributes of another
\* type.  The caller asks for the message digest, for the issuer and serial
\* number and for the digest algorithms, and registers digest algorithms.
MaxAttrs == 2

OID_contentType == <<1, 2, 840, 113549, 1, 9, 3>>

AttributeOf(oid, value) ==
  TLV(48, TLV(TYPE_OBJECT_ID, ksba_oid_from_str(oid)) \o value)

ParsedAttributes ==
  { AttributeImage(<<17>>),
    AttributeImage(<<18, 19>>),
    AttributeOf(oidstr_messageDigest, TLV(49, <<>>)),
    AttributeOf(oidstr_messageDigest,
                TLV(49, TLV(TYPE_OCTET_STRING, <<17>>)
                        \o TLV(TYPE_OCTET_STRING, <<18>>))),
    AttributeOf(oidstr_messageDigest, TLV(49, TLV(TYPE_INTEGER, <<17>>))),
    AttributeOf(oidstr_messageDigest, TLV(TYPE_OCTET_STRING, <<17>>)),
    AttributeOf(OID_contentType,
                TLV(49, TLV(TYPE_OBJECT_ID, ksba_oid_from_str(OID_data)))) }

RECURSIVE AttributeLists(_)
AttributeLists(n) ==
  IF n = 0 THEN {<<>>}
  ELSE AttributeLists(n - 1)
       \cup { l \o a : l \in AttributeLists(n - 1), a \in ParsedAttributes }

\* the SignerInfos block of a parsed object: SET OF { SEQUENCE { version,
\* sid, digestAlgorithm, signedAttrs [0] OPTIONAL, signatureAlgorithm,
\* signature } }
ParsedInfoImage(signedAttrs) ==
  TLV(49, TLV(48,    TLV(TYPE_INTEGER, <<1>>)
                  \o TLV(48, CertIssuer(CertOf(1)) \o CertSerial(CertOf(1)))
                  \o der_algorithm_identifier(OID_sha1)
                  \o signedAttrs
                  \o der_algorithm_identifier(OID_sha1)
                  \o TLV(TYPE_OCTET_STRING, <<1, 2, 3>>)))

ParsedInfoImages ==
  {ParsedInfoImage(<<>>)}
  \cup {ParsedInfoImage(TLV(160, l)) : l \in AttributeLists(MaxAttrs)}

\* the container after the parse of an object with attached content
ParsedSetup ==
  LET in == CHOOSE i \in EngineInputs :
              i.ok /\ i.oid = OID_signedData /\ ~i.detached /\ ~i.digest
                   /\ i.wfail = 0
      c1 == cms_set_reader_writer(ksba_cms_new,
                                  CHOOSE r \in Readers : TRUE, 0).cms
      c2 == cms_set_hash_function(c1, TRUE).cms
      P(c) == cms_parse(c, in).cms
  IN  P(P(P(P(c2))))

InitGet ==
  /\ cms \in {ksba_cms_new}
             \cup {[ParsedSetup EXCEPT !.signer_info.image = image] :
                     image \in ParsedInfoImages}
  /\ out = <<>>
  /\ hashed = <<>>
  /\ last = Call("ksba_cms_new", ksba_cms_new, Ret(ksba_cms_new, "OK"), "NONE")
  /\ log = <<>>
  /\ aborted = FALSE
  /\ heap = NewHeap

GetAlgoOids == {OID_sha1, OID_md5}

NextGet ==
  \/ AddDigestAlgo(GetAlgoOids)
  \/ ksba_cms_get_digest_algo_list
  \/ ksba_cms_get_message_digest
  \/ ksba_cms_get_issuer_serial

SpecGet == InitGet /\ [][NextGet]_vars

\* The calls up to the release of the container, with the allocator
\* followed.  The caller has bound a reader and a writer; it sets content
\* types, adds signers, asks for their certificates, pumps ksba_cms_parse or
\* ksba_cms_build, and releases the container: fresh, in the middle of a
\* parse or of a build, after an error, after certificates were handed out.
ReleaseSetup ==
  cms_set_reader_writer(ksba_cms_new, CHOOSE r \in Readers : TRUE,
                        CHOOSE w \in Writers : TRUE).cms

InitRelease ==
  /\ cms = ReleaseSetup
  /\ out = <<>>
  /\ hashed = <<>>
  /\ last = Call("ksba_cms_new", ksba_cms_new, Ret(ksba_cms_new, "OK"), "NONE")
  /\ log = <<>>
  /\ aborted = FALSE
  /\ heap = NewHeap

NextRelease ==
  \/ SetContentType(TRUE)
  \/ ksba_cms_add_signer
  \/ ksba_cms_get_cert
  \/ ksba_cms_build
  \/ ksba_cms_release

SpecRelease == InitRelease /\ [][NextRelease]_vars

\* The signing caller that may also register and unregister its hash
\* function at any time.
NextHash ==
  \/ NextSign
  \/ ksba_cms_set_hash_function

SpecHash == InitSign /\ [][NextHash]_vars

\* A caller that pumps.  It has bound a reader and a writer and registered
\* its hash function; from there it sets the content types, registers digest
\* algorithms and signers, supplies message digests and calls either engine
\* until the container is ready.
PumpSetup ==
  cms_set_hash_function(
    cms_set_reader_writer(ksba_cms_new, CHOOSE r \in Readers : TRUE,
                          CHOOSE w \in Writers : TRUE).cms,
    TRUE).cms

InitPump ==
  /\ cms = PumpSetup
  /\ out = <<>>
  /\ hashed = <<>>
  /\ last = Call("ksba_cms_new", ksba_cms_new, Ret(ksba_cms_new, "OK"), "NONE")
  /\ log = <<>>
  /\ aborted = FALSE
  /\ heap = NewHeap

NextPump ==
  \/ ksba_cms_set_content_type
  \/ ksba_cms_add_digest_algo
  \/ ksba_cms_add_signer
  \/ SetMessageDigest(SignDigests)
  \/ ksba_cms_parse
  \/ ksba_cms_build

SpecPump == InitPump /\ [][NextPump]_vars

-----------------------------------------------------------------------------
(* Properties *)

IsPrefix(s, t) == Len(s) <= Len(t) /\ SubSeq(t, 1, Len(s)) = s

SignedHandlers == {"ct_parse_signed_data", "ct_build_signed_data"}

\* C1: on a fresh container that parses signed data with attached content,
\* the successful ksba_cms_parse calls return GOT_CONTENT, BEGIN_DATA,
\* END_DATA, READY, in this order, one stop reason per call.
C1_AttachedParseOrder ==
  (cms.content.handler = "ct_parse_signed_data" /\ ~cms.detached_signature)
    => IsPrefix(log, << "KSBA_SR_GOT_CONTENT", "KSBA_SR_BEGIN_DATA",
                        "KSBA_SR_END_DATA", "KSBA_SR_READY" >>)

\* the fourth successful parse call of an attached signed-data parse
C1_Witness ==
  /\ cms.content.handler = "ct_parse_signed_data"
  /\ ~cms.detached_signature
  /\ last.op = "ksba_cms_parse" /\ last.err = "OK" /\ last.step = "part_2"
  /\ log = << "KSBA_SR_GOT_CONTENT", "KSBA_SR_BEGIN_DATA",
              "KSBA_SR_END_DATA", "KSBA_SR_READY" >>

\* C2: the parser's START step returns NEED_HASH exactly when the signature
\* is detached and no digest is at hand, and BEGIN_DATA otherwise; the
\* successful call entered with NEED_HASH returns READY, so that a detached
\* parse returns GOT_CONTENT, NEED_HASH, READY.
C2_StartStepStopReason ==
  /\ (last.step = "part_1" /\ last.err = "OK")
       => last.ret = IF cms.detached_signature /\ ~cms.data_digest
                       THEN "KSBA_SR_NEED_HASH" ELSE "KSBA_SR_BEGIN_DATA"
  /\ (last.handler = "ct_parse_signed_data" /\ last.err = "OK"
        /\ last.pre = "KSBA_SR_NEED_HASH")
       => last.ret = "KSBA_SR_READY"
  /\ (cms.content.handler = "ct_parse_signed_data"
        /\ cms.detached_signature /\ ~cms.data_digest)
       => IsPrefix(log, << "KSBA_SR_GOT_CONTENT", "KSBA_SR_NEED_HASH",
                           "KSBA_SR_READY" >>)

\* a detached parse that reached READY from NEED_HASH with no hash function
C2_Witness ==
  /\ cms.detached_signature /\ ~cms.data_digest /\ ~cms.hash_fnc
  /\ last.op = "ksba_cms_parse" /\ last.err = "OK"
  /\ last.pre = "KSBA_SR_NEED_HASH"
  /\ log = << "KSBA_SR_GOT_CONTENT", "KSBA_SR_NEED_HASH", "KSBA_SR_READY" >>

\* the attached build scenario: outer type signed-data, inner type data, one
\* digest algorithm, one signer, no detached signature requested
AttachedBuild ==
  /\ cms.content.handler = "ct_build_signed_data"
  /\ cms.encap_cont_type = OID_data
  /\ Len(cms.digest_algos) = 1
  /\ Len(cms.cert_list) = 1
  /\ ~cms.detached_signature

\* C3 as claimed: in the attached build scenario the successful
\* ksba_cms_build calls return BEGIN_DATA, NEED_SIG, READY, the first call
\* returning BEGIN_DATA.
C3_FirstBuildReturnsBeginData ==
  AttachedBuild
    => IsPrefix(log, << "KSBA_SR_BEGIN_DATA", "KSBA_SR_NEED_SIG",
                        "KSBA_SR_READY" >>)

\* C3 as amended: ksba_cms_set_content_type leaves the stop reason at its
\* initial value; in the attached build scenario the successful
\* ksba_cms_build calls return GOT_CONTENT, BEGIN_DATA, NEED_SIG, READY, in
\* this order.
C3_AttachedBuildOrder ==
  /\ (log = <<>>) <=> (cms.stop_reason = "NONE")
  /\ AttachedBuild
       => IsPrefix(log, << "KSBA_SR_GOT_CONTENT", "KSBA_SR_BEGIN_DATA",
                           "KSBA_SR_NEED_SIG", "KSBA_SR_READY" >>)

\* the fourth successful build call of the attached scenario, the signer's
\* digest set
C3_Witness ==
  /\ AttachedBuild
  /\ Len(cms.cert_list[1].msg_digest) # 0
  /\ last.op = "ksba_cms_build" /\ last.err = "OK" /\ last.step = "rest"
  /\ log = << "KSBA_SR_GOT_CONTENT", "KSBA_SR_BEGIN_DATA",
              "KSBA_SR_NEED_SIG", "KSBA_SR_READY" >>

\* C4 as claimed: when ksba_cms_parse or ksba_cms_build returns an error the
\* stop reason is the one the container had before the call.
C4_ErrorKeepsStopReason ==
  (last.op \in {"ksba_cms_parse", "ksba_cms_build"} /\ last.err # "OK")
    => cms.stop_reason = last.pre

\* C4 as amended: when ksba_cms_parse or ksba_cms_build returns an error the
\* stop reason has not advanced: it is the one before the call when the
\* dispatcher or a stub handler returned the error, and RUNNING when a
\* signed-data handler did.
C4_ErrorNeverAdvances ==
  (~aborted /\ last.op \in {"ksba_cms_parse", "ksba_cms_build"}
            /\ last.err # "OK")
    => cms.stop_reason =
         IF last.pre # "NONE" /\ last.handler \in SignedHandlers
           THEN "KSBA_SR_RUNNING"
           ELSE last.pre

\* the parse handler entered at BEGIN_DATA without a hash function
C4_Witness ==
  /\ last.op = "ksba_cms_parse" /\ last.handler = "ct_parse_signed_data"
  /\ last.pre = "KSBA_SR_BEGIN_DATA" /\ last.err = "KSBA_Missing_Action"
  /\ cms.stop_reason = "KSBA_SR_RUNNING"

\* C5 as claimed: RUNNING is never the stop reason of the container between
\* two calls.
C5_RunningNeverObserved == cms.stop_reason # "KSBA_SR_RUNNING"

\* C5 as amended: no successful call leaves RUNNING; the stop reason is
\* RUNNING between two calls only when the last parse or build call
\* returned an error, and it is RUNNING whenever that error came from a
\* signed-data handler.
C5_RunningOnlyAfterError ==
  /\ cms.stop_reason = "KSBA_SR_RUNNING"
       => /\ last.op \in {"ksba_cms_parse", "ksba_cms_build"}
          /\ last.err # "OK"
  /\ (~aborted /\ last.err # "OK" /\ last.pre # "NONE"
               /\ last.handler \in SignedHandlers)
       => cms.stop_reason = "KSBA_SR_RUNNING"

\* a read error in the first part of the signed data left RUNNING
C5_Witness ==
  /\ cms.stop_reason = "KSBA_SR_RUNNING"
  /\ last.op = "ksba_cms_parse" /\ last.pre = "KSBA_SR_GOT_CONTENT"
  /\ last.err = "KSBA_Read_Error"

\* C6: a signed-data handler entered with stop reason RUNNING returns
\* Invalid_State, runs no step and writes nothing.
C6_RunningIsInvalidState ==
  (last.pre = "KSBA_SR_RUNNING" /\ last.handler \in SignedHandlers)
    => /\ last.err = "KSBA_Invalid_State"
       /\ last.step = "none" /\ last.wrote = 0
       /\ cms.stop_reason = "KSBA_SR_RUNNING"

\* a parse call on a container whose previous call failed
C6_Witness ==
  /\ last.op = "ksba_cms_parse" /\ last.handler = "ct_parse_signed_data"
  /\ last.pre = "KSBA_SR_RUNNING" /\ last.err = "KSBA_Invalid_State"

\* the stop reasons outside the sub-protocol of the handler of the last call
OutsideSubProtocol ==
  \/ /\ last.handler = "ct_parse_signed_data"
     /\ last.pre \in {"KSBA_SR_NEED_SIG", "KSBA_SR_READY"}
  \/ /\ last.handler = "ct_build_signed_data"
     /\ last.pre \in {"KSBA_SR_NEED_HASH", "KSBA_SR_READY"}

\* C7 as claimed: a signed-data handler entered with a stop reason outside
\* its sub-protocol returns Invalid_State.
C7_OutsideIsInvalidState ==
  OutsideSubProtocol => last.err = "KSBA_Invalid_State"

\* C7 as amended: a signed-data handler entered with a stop reason outside
\* its sub-protocol returns the internal error KSBA_Bug, runs no step,
\* writes nothing and leaves RUNNING.
C7_OutsideIsBug ==
  OutsideSubProtocol
    => /\ last.err = "KSBA_Bug"
       /\ last.step = "none" /\ last.wrote = 0
       /\ cms.stop_reason = "KSBA_SR_RUNNING"

\* the build handler, installed during a parse, entered with NEED_HASH
C7_Witness ==
  /\ last.op = "ksba_cms_build" /\ last.handler = "ct_build_signed_data"
  /\ last.pre = "KSBA_SR_NEED_HASH" /\ last.err = "KSBA_Bug"

\* the header step of the build: the handler leaves GOT_CONTENT with success
HeaderStep ==
  /\ cms.content.handler = "ct_build_signed_data"
  /\ cms.stop_reason = "KSBA_SR_GOT_CONTENT"
  /\ cms'.stop_reason \in {"KSBA_SR_BEGIN_DATA", "KSBA_SR_END_DATA"}

\* TRUE iff the bytes appended to the output by this step end with t
AppendedEndsWith(t) ==
  /\ Len(out') >= Len(out) + Len(t)
  /\ SubSeq(out', Len(out') - Len(t) + 1, Len(out')) = t

\* C8 as claimed: the header step sets detached_signature iff some signer
\* has a non-empty preset digest, returns END_DATA when it is set and
\* BEGIN_DATA otherwise, and writes the inner [0] tag iff it is not set.
C8_DetachedIffAnyPresetDigest ==
  [][ HeaderStep
        => /\ cms'.detached_signature
                <=> \E i \in 1..Len(cms.cert_list) :
                       Len(cms.cert_list[i].msg_digest) # 0
           /\ cms'.stop_reason = IF cms'.detached_signature
                                   THEN "KSBA_SR_END_DATA"
                                   ELSE "KSBA_SR_BEGIN_DATA"
           /\ AppendedEndsWith(ber_write_tl(0, CLASS_CONTEXT, TRUE, 0))
                <=> ~cms'.detached_signature ]_vars

\* C9: ksba_cms_set_reader_writer with neither stream returns Invalid_Value;
\* with a reader while a reader is bound, or a writer while a writer is
\* bound, it returns Conflict; in both cases the container is unchanged.
C9_ReaderWriterOneShot ==
  \A r \in Readers \cup {0}, w \in Writers \cup {0} :
    LET res == cms_set_reader_writer(cms, r, w)
    IN  /\ (r = 0 /\ w = 0)
             => res.err = "KSBA_Invalid_Value" /\ res.cms = cms
        /\ ((r # 0 /\ cms.reader # 0) \/ (w # 0 /\ cms.writer # 0))
             => res.err = "KSBA_Conflict" /\ res.cms = cms

\* a container with a writer bound and no reader, where a second writer is
\* refused and the engine has run
C9_Witness ==
  /\ cms.writer # 0 /\ cms.reader = 0
  /\ last.op = "ksba_cms_build" /\ last.err = "OK"
  /\ \E w \in Writers : cms_set_reader_writer(cms, 0, w).err = "KSBA_Conflict"

\* C10: a ksba_cms_build call in the initial state on a container without a
\* writer, without a content handler or without an inner content type
\* returns Missing_Action, writes nothing and leaves the container as it
\* was; with the three in place the same call succeeds with GOT_CONTENT.
C10_MissingPrerequisite ==
  /\ (last.op = "ksba_cms_build" /\ last.pre = "NONE" /\ last.err # "OK")
       => /\ last.err = "KSBA_Missing_Action"
          /\ last.step = "none" /\ last.wrote = 0
          /\ cms.stop_reason = "NONE" /\ out = <<>>
  /\ cms.stop_reason = "NONE"
       => \A in \in EngineInputs :
            LET r == cms_build(cms, in)
                lacks == \/ cms.writer = 0
                         \/ cms.content.handler = "NULL"
                         \/ cms.encap_cont_type = <<>>
            IN  IF lacks
                  THEN /\ r.err = "KSBA_Missing_Action"
                       /\ r.cms = cms /\ r.bytes = <<>>
                  ELSE /\ r.err = "OK"
                       /\ r.cms.stop_reason = "KSBA_SR_GOT_CONTENT"

\* a first build call failed for a missing prerequisite, and the
\* prerequisites have been supplied since
C10_Witness ==
  /\ last.op = "ksba_cms_build" /\ last.pre = "NONE"
  /\ last.err = "KSBA_Missing_Action"
  /\ cms.stop_reason = "NONE"
  /\ cms.writer # 0 /\ cms.content.handler # "NULL"
  /\ cms.encap_cont_type # <<>>

\* C11: in the initial state a parse of a ContentInfo whose OID has no table
\* row returns Unknown_CMS_Object and one whose row has no parse handler
\* returns Unsupported_CMS_Object; ksba_cms_set_content_type with a type
\* that has no row returns Unknown_CMS_Object and with one whose row has no
\* build handler returns Unsupported_CMS_Object; none of the four changes
\* the stop reason or the handler.
C11_DispatcherOutcomes ==
  /\ (last.op = "ksba_cms_parse" /\ last.pre = "NONE"
        /\ last.err \in {"KSBA_Unknown_CMS_Object",
                         "KSBA_Unsupported_CMS_Object"})
       => cms.stop_reason = "NONE" /\ log = <<>>
  /\ (cms.stop_reason = "NONE" /\ cms.reader # 0)
       => \A in \in {x \in EngineInputs : x.ok} :
            LET r == cms_parse(cms, in)
                i == RowOfOid(in.oid)
                expected ==
                  IF i > Len(content_handlers)
                    THEN "KSBA_Unknown_CMS_Object"
                  ELSE IF content_handlers[i].parse_handler = "NULL"
                    THEN "KSBA_Unsupported_CMS_Object"
                  ELSE "OK"
            IN  /\ r.err = expected
                /\ expected # "OK"
                     => /\ r.cms.stop_reason = "NONE"
                        /\ r.cms.content.handler = cms.content.handler
  /\ \A what \in 0..1, type \in CallerTypes :
       LET r == cms_set_content_type(cms, what, type)
           i == RowOfType(type)
           expected ==
             IF i > Len(content_handlers)
               THEN "KSBA_Unknown_CMS_Object"
             ELSE IF content_handlers[i].build_handler = "NULL"
               THEN "KSBA_Unsupported_CMS_Object"
             ELSE "OK"
       IN  /\ r.err = expected
           /\ r.cms.stop_reason = cms.stop_reason
           /\ expected # "OK" => r.cms = cms

\* a parse of an auth-data ContentInfo was refused, after which the types
\* outside the table are still refused
C11_Witness ==
  /\ last.op = "ksba_cms_parse" /\ last.pre = "NONE"
  /\ last.err = "KSBA_Unsupported_CMS_Object"
  /\ cms.content.oid = OID_authData
  /\ cms.stop_reason = "NONE"
  /\ cms_set_content_type(cms, 0, "KSBA_CT_NONE").err
       = "KSBA_Unknown_CMS_Object"
  /\ cms_set_content_type(cms, 0, "KSBA_CT_AUTH_DATA").err
       = "KSBA_Unsupported_CMS_Object"

\* C12 as claimed: in every reachable state content.ct and content.handler
\* are entries of the table row whose OID is content.oid (a row may stand
\* with its parse handler or with its build handler).
C12_ContentAgreesWithTable ==
  LET i == RowOfOid(cms.content.oid)
  IN  i <= Len(content_handlers)
        => /\ cms.content.ct = content_handlers[i].ct
           /\ cms.content.handler \in {content_handlers[i].parse_handler,
                                       content_handlers[i].build_handler}

\* the parse handlers of the table
ParseHandlers ==
  {content_handlers[i].parse_handler : i \in 1..Len(content_handlers)}
    \ {"NULL"}

\* C13 as claimed: after the initialisation by ksba_cms_parse every later
\* ksba_cms_parse call dispatches to the parse handler that initialisation
\* installed, whatever calls are made in between.
C13_ParseKeepsItsHandler ==
  (last.op = "ksba_cms_parse" /\ last.pre # "NONE")
    => last.handler \in ParseHandlers

\* C14 as claimed: the signer added by the (i+1)-th ksba_cms_add_signer call
\* has index i: ksba_cms_get_cert(i) returns its certificate and
\* ksba_cms_set_message_digest(i, d) stores d on its record.
C14_IndexIsAddOrder ==
  \A idx \in 0..(Len(cms.cert_list) - 1) :
    (\E p \in 1..Len(cms.cert_list) : cms.cert_list[p].cert = CertOf(idx + 1))
      => /\ cms_get_cert(cms, idx).cert = CertOf(idx + 1)
         /\ \A d \in {x \in Digests : Len(x) \in 1..DIM_msg_digest} :
              LET r == cms_set_message_digest(cms, idx, d)
              IN  /\ r.err = "OK"
                  /\ \A p \in 1..Len(r.cms.cert_list) :
                       r.cms.cert_list[p].cert = CertOf(idx + 1)
                         => r.cms.cert_list[p].msg_digest = d

\* the list node a recorded ksba_cms_get_cert call stopped at, numbered from
\* the tail of the list (0 when the index is outside the list)
NodeOf(g) == IF g.idx >= 0 /\ g.idx < g.signers THEN g.signers - g.idx ELSE 0

DataReadyStep ==
  /\ cms.content.handler = "ct_build_signed_data"
  /\ cms.stop_reason \in {"KSBA_SR_BEGIN_DATA", "KSBA_SR_END_DATA"}
  /\ cms'.stop_reason # cms.stop_reason

\* the errors of a writer that is not bound or refuses the end tag
WriterErrors == {"KSBA_Invalid_Value", "KSBA_Write_Error"}

\* C16 as claimed: the attributes step with no signer, or with fewer digest
\* algorithms than signers (none included), returns Missing_Value (unless
\* the writer fails first).
C16_MissingListsAreMissingValue ==
  [][ (DataReadyStep /\ (\/ Len(cms.cert_list) = 0
                         \/ Len(cms.digest_algos) < Len(cms.cert_list)))
        => last'.err \in {"KSBA_Missing_Value"} \cup WriterErrors ]_vars

\* C17 as claimed: the attributes step with a signer whose message digest
\* was never set returns Missing_Value (unless the writer fails first); it
\* does not abort and stores no attribute with an empty digest.
C17_MissingDigestIsMissingValue ==
  [][ (DataReadyStep /\ \E i \in 1..Len(cms.cert_list) :
                           Len(cms.cert_list[i].msg_digest) = 0)
        => /\ last'.err \in {"KSBA_Missing_Value"} \cup WriterErrors
           /\ ~aborted' ]_vars

\* C18: a parse call that enters ct_parse_signed_data at BEGIN_DATA returns
\* Missing_Action, without reporting END_DATA, when no hash function is
\* registered; with a hash function it parses nothing, changes nothing but
\* the stop reason, and returns END_DATA.
C18_BeginDataNeedsHashFunction ==
  /\ (last.op = "ksba_cms_parse" /\ last.handler = "ct_parse_signed_data"
        /\ last.pre = "KSBA_SR_BEGIN_DATA")
       => \/ /\ last.err = "KSBA_Missing_Action"
             /\ last.ret # "KSBA_SR_END_DATA" /\ last.step = "none"
             /\ cms.stop_reason # "KSBA_SR_END_DATA"
          \/ /\ last.err = "OK"
             /\ last.ret = "KSBA_SR_END_DATA" /\ last.step = "in_data"
             /\ cms.stop_reason = "KSBA_SR_END_DATA"
  /\ (cms.content.handler = "ct_parse_signed_data"
        /\ cms.stop_reason = "KSBA_SR_BEGIN_DATA")
       => \A in \in EngineInputs :
            LET r == cms_parse(cms, in)
            IN  IF cms.hash_fnc
                  THEN /\ r.err = "OK"
                       /\ r.cms = [cms EXCEPT
                                     !.stop_reason = "KSBA_SR_END_DATA"]
                  ELSE /\ r.err = "KSBA_Missing_Action"
                       /\ r.cms.stop_reason # "KSBA_SR_END_DATA"

\* the data round of a parse with a hash function registered
C18_Witness ==
  /\ last.op = "ksba_cms_parse" /\ last.handler = "ct_parse_signed_data"
  /\ last.pre = "KSBA_SR_BEGIN_DATA" /\ last.err = "OK"
  /\ last.step = "in_data" /\ cms.hash_fnc
  /\ cms.stop_reason = "KSBA_SR_END_DATA"

\* the chunks of one ksba_cms_hash_signed_attrs call, concatenated
RECURSIVE Concat(_)
Concat(chunks) ==
  IF chunks = <<>> THEN <<>> ELSE Head(chunks) \o Concat(Tail(chunks))

\* C19: the bytes a successful ksba_cms_hash_signed_attrs(0) hands to the
\* hash function begin with 0x31, continue with the stored signedAttrs
\* encoding (which begins with the [0] tag) without its first byte, and are
\* nhdr + len bytes in all; what was hashed is the SET OF encoding of the
\* attributes built for a signer.
C19_HashedAttrsBytes ==
  LET n     == FindSignedAttrs(cms.signer_info)
      r     == cms_hash_signed_attrs(cms, 0)
      bytes == Concat(r.calls)
      node  == SubSeq(cms.signer_info.image, n.off + 1,
                      n.off + n.nhdr + n.len)
  IN  /\ r.err = "OK"
           => /\ Len(node) = n.nhdr + n.len /\ node[1] = 160
              /\ bytes[1] = 49
              /\ Tail(bytes) = Tail(node)
              /\ Len(bytes) = 1 + (n.nhdr + n.len - 1)
      /\ hashed # <<>>
           => LET h == Concat(hashed)
              IN  /\ h[1] = 49 /\ Len(h) = 2 + h[2]
                  /\ \E i \in 1..Len(cms.cert_list) :
                       /\ cms.cert_list[i].attr.root
                       /\ h = TLV(49, cms.cert_list[i].attr.image)

\* the signed attributes were hashed after the build asked for the signature
C19_Witness ==
  /\ cms.content.handler = "ct_build_signed_data"
  /\ cms.stop_reason = "KSBA_SR_NEED_SIG"
  /\ Len(hashed) = 2 /\ hashed[1] = <<49>>
  /\ Len(hashed[2]) = FindSignedAttrs(cms.signer_info).nhdr
                        + FindSignedAttrs(cms.signer_info).len - 1
  /\ cms_hash_signed_attrs(cms, 0).err = "OK"

\* the signedAttrs object inside an encoded SignerInfos tree
SignedAttrsOf(image) ==
  LET n == FindSignedAttrs([root |-> TRUE, image |-> image])
  IN  SubSeq(image, n.off + 1, n.off + n.nhdr + n.len)

\* C20 as claimed: when the build has asked for the signature and its last
\* step is going to succeed, then for every signer whose signed attributes
\* ksba_cms_hash_signed_attrs hashes, the hashed content is the content of
\* the signedAttrs in the SignerInfo that step emits for that signer.
C20_HashedMatchesEmbedded ==
  (/\ cms.content.handler = "ct_build_signed_data"
   /\ cms.stop_reason = "KSBA_SR_NEED_SIG"
   /\ build_signed_data_rest(cms, 0).err = "OK")
    => \A idx \in 0..(Len(cms.cert_list) - 1) :
         LET r       == cms_hash_signed_attrs(cms, idx)
             emitted == SignerInfoImage(idx, cms.cert_list[idx + 1],
                                        cms.digest_algos[idx + 1])
         IN  r.err = "OK"
               => Tail(Concat(r.calls)) = Tail(SignedAttrsOf(emitted))

-----------------------------------------------------------------------------
(* A reader of the emitted stream: BER objects with short definite or       *)
(* indefinite lengths, as the wire format of the signed-data container has  *)
(* them.                                                                     *)

\* The stream cut into tokens from position pos on: a header with its
\* position, tag, length (-1: indefinite) and nesting depth.  The content of
\* a definite-length object is skipped, an indefinite-length header opens a
\* level that an end-of-contents token (tag 0, length 0) closes.  A header or
\* a content that runs off the end of the stream gives a token with tag -1.
RECURSIVE Tokens(_, _, _)
Tokens(b, pos, depth) ==
  LET tok(tag, len, d) == [pos |-> pos, tag |-> tag, len |-> len, depth |-> d]
  IN  IF pos > Len(b) THEN <<>>
      ELSE IF pos + 1 > Len(b) THEN << tok(-1, 0, depth) >>
      ELSE IF b[pos] = 0 /\ b[pos + 1] = 0
        THEN << tok(0, 0, depth - 1) >> \o Tokens(b, pos + 2, depth - 1)
      ELSE IF b[pos + 1] = 128
        THEN << tok(b[pos], -1, depth) >> \o Tokens(b, pos + 2, depth + 1)
      ELSE IF b[pos + 1] > 128 \/ pos + 1 + b[pos + 1] > Len(b)
        THEN << tok(-1, 0, depth) >>
      ELSE << tok(b[pos], b[pos + 1], depth) >>
           \o Tokens(b, pos + 2 + b[pos + 1], depth)

IsEOC(t) == t.tag = 0 /\ t.len = 0

\* the indefinite-length headers and the end-of-contents pairs of a stream
OpenedHeaders(b) ==
  Cardinality({i \in 1..Len(Tokens(b, 1, 0)) : Tokens(b, 1, 0)[i].len = -1})

EndOfContents(b) ==
  Cardinality({i \in 1..Len(Tokens(b, 1, 0)) : IsEOC(Tokens(b, 1, 0)[i])})

\* the stream is one complete object: nothing is cut off, no level is closed
\* that was not opened, every level is closed at the end, and there is one
\* object at the outermost level
WellFormedBER(b) ==
  LET T == Tokens(b, 1, 0)
  IN  /\ T # <<>>
      /\ \A i \in 1..Len(T) : T[i].tag # -1 /\ T[i].depth >= 0
      /\ T[Len(T)].depth = 0
      /\ IsEOC(T[Len(T)]) \/ Len(T) = 1
      /\ Cardinality({i \in 1..Len(T) : T[i].depth = 0 /\ ~IsEOC(T[i])}) = 1

\* the content octets of the object whose header is the token t
ContentOf(b, t) == SubSeq(b, t.pos + 2, t.pos + 1 + t.len)

-----------------------------------------------------------------------------
(* The accessors *)

\* the values of the messageDigest attributes of the stored SignerInfo
MessageDigestValues ==
  asn_find_type_value(cms.signer_info.image,
                      FindSignedAttrs(cms.signer_info), oid_messageDigest)

GotMessageDigest(idx) ==
  last.op = "ksba_cms_get_message_digest" /\ last.idx = idx

\* C23: ksba_cms_get_message_digest (idx 0) on a SignerInfo with two or more
\* messageDigest attributes returns KSBA_Duplicate_Value, whatever the shape
\* of their values; with exactly one whose value is not a SET OF exactly one
\* OCTET STRING it returns KSBA_Invalid_CMS_Object; in both cases *r_digest
\* is NULL.
C23_DuplicateBeforeShape ==
  (GotMessageDigest(0) /\ cms.signer_info.root)
    => /\ Len(MessageDigestValues) >= 2
            => last.err = "KSBA_Duplicate_Value" /\ last.ptr = "NULL"
       /\ ( /\ Len(MessageDigestValues) = 1
            /\ ~IsSetOfOneOctetString(cms.signer_info.image,
                                      MessageDigestValues[1]) )
            => last.err = "KSBA_Invalid_CMS_Object" /\ last.ptr = "NULL"

\* two messageDigest attributes, the first of a wrong shape
C23_Witness ==
  /\ GotMessageDigest(0)
  /\ Len(MessageDigestValues) = 2
  /\ ~IsSetOfOneOctetString(cms.signer_info.image, MessageDigestValues[1])
  /\ last.err = "KSBA_Duplicate_Value"
  /\ last.ptr = "NULL"

\* C24 as stated: ksba_cms_get_message_digest (idx 0) returns
\* KSBA_Value_Not_Found whenever the stored SignerInfo has no messageDigest attribute, the
\* SignerInfo without signedAttrs included, and then never returns success.
C24_NoDigestIsValueNotFound ==
  (GotMessageDigest(0) /\ cms.signer_info.root /\ MessageDigestValues = <<>>)
    => last.err = "KSBA_Value_Not_Found"

\* C24: ksba_cms_get_message_digest (idx 0) on a SignerInfo without a
\* messageDigest attribute stores NULL and the length 0; it returns
\* KSBA_Value_Not_Found when the tree has the signedAttrs node, and success
\* when the tree has no signedAttrs node.
C24_NoDigestOutcomes ==
  (GotMessageDigest(0) /\ cms.signer_info.root /\ MessageDigestValues = <<>>)
    => /\ last.ptr = "NULL"
       /\ last.digest = <<>>
       /\ last.node.found => last.err = "KSBA_Value_Not_Found"
       /\ ~last.node.found => last.err = "OK"

\* the tree has no signedAttrs node: success, and no digest
C24_Witness ==
  /\ GotMessageDigest(0)
  /\ cms.signer_info.root
  /\ ~last.node.found
  /\ last.err = "OK"
  /\ last.ptr = "NULL"

\* C25: ksba_cms_get_issuer_serial with an index above 0 returns
\* KSBA_Not_Implemented and stores neither an issuer nor a serial number.
C25_IssuerSerialIndexAboveZero ==
  (last.op = "ksba_cms_get_issuer_serial" /\ last.idx > 0)
    => /\ last.err = "KSBA_Not_Implemented"
       /\ last.issuer = <<>>
       /\ last.serial = <<>>

\* a step that registers a digest algorithm
AddedDigestAlgo ==
  Len(cms'.digest_algos) = Len(cms.digest_algos) + 1

\* C29 as stated: ksba_cms_add_digest_algo leaves every OID registered
\* earlier at its index and the new OID gets the index after the last one.
C29_IndexIsAddOrder ==
  [][AddedDigestAlgo =>
       /\ \A i \in 0..(Len(cms.digest_algos) - 1) :
            cms_get_digest_algo_list(cms', i)
              = cms_get_digest_algo_list(cms, i)
       /\ cms_get_digest_algo_list(cms', Len(cms.digest_algos)) # <<>>
       /\ cms_get_digest_algo_list(cms', Len(cms.digest_algos) + 1) = <<>>
    ]_vars

\* C29: ksba_cms_add_digest_algo gives the new OID the index 0 and moves
\* every OID registered earlier to the next index; an index at or above the
\* number of registered OIDs gives NULL.
C29_IndexIsReverseAddOrder ==
  [][AddedDigestAlgo =>
       /\ \E oid \in GetAlgoOids :
            /\ cms' = cms_add_digest_algo(cms, oid).cms
            /\ cms_get_digest_algo_list(cms', 0) = oid
       /\ \A i \in 0..(Len(cms.digest_algos) - 1) :
            cms_get_digest_algo_list(cms', i + 1)
              = cms_get_digest_algo_list(cms, i)
       /\ cms_get_digest_algo_list(cms', Len(cms.digest_algos) + 1) = <<>>
    ]_vars

\* two different OIDs are registered; the index 1 returned the one at the
\* tail of the list and the index 2 returned NULL
C29_Witness ==
  /\ Len(cms.digest_algos) = 2
  /\ cms.digest_algos[1] # cms.digest_algos[2]
  /\ last.op = "ksba_cms_get_digest_algo_list"
  /\ last.algos = cms.digest_algos
  /\ last.idx = 1
  /\ last.oid = cms.digest_algos[2]

-----------------------------------------------------------------------------
(* The emission of the builder *)

\* a ksba_cms_build call
BuildCall ==
  /\ last'.op = "ksba_cms_build"
  /\ last' # last \/ out' # out

EmissionSteps == {"header", "attributes", "rest"}

\* the stop reason an emission step is entered with and the ones it leaves
\* on success
StepEntry(step) ==
  IF step = "header" THEN {"KSBA_SR_GOT_CONTENT"}
  ELSE IF step = "attributes" THEN {"KSBA_SR_BEGIN_DATA", "KSBA_SR_END_DATA"}
  ELSE {"KSBA_SR_NEED_SIG"}

StepExit(step) ==
  IF step = "header" THEN {"KSBA_SR_BEGIN_DATA", "KSBA_SR_END_DATA"}
  ELSE IF step = "attributes" THEN {"KSBA_SR_NEED_SIG"}
  ELSE {"KSBA_SR_READY"}

\* C26: in a sequence of ksba_cms_build calls an emission step runs only
\* from the stop reason of the step before it (header from GOT_CONTENT,
\* attributes from BEGIN_DATA or END_DATA, rest from NEED_SIG); a successful
\* call moves the stop reason one place along GOT_CONTENT, BEGIN_DATA or
\* END_DATA, NEED_SIG, READY and has run the step of that place; a failed
\* call leaves the chain for good (RUNNING), so that no step runs twice;
\* only the steps write, and nothing is written once READY is reached.
C26_StepsInOrderOnce ==
  [][BuildCall =>
       /\ last'.step \in EmissionSteps
            => cms.stop_reason \in StepEntry(last'.step)
       /\ out' # out => last'.step \in EmissionSteps
       /\ cms.stop_reason \in {"KSBA_SR_READY", "KSBA_SR_RUNNING"}
            => out' = out /\ last'.err # "OK"
       /\ last'.err = "OK"
            => \/ /\ cms.stop_reason = "NONE"
                  /\ cms'.stop_reason = "KSBA_SR_GOT_CONTENT"
                  /\ out' = out
               \/ /\ last'.step \in EmissionSteps
                  /\ cms'.stop_reason \in StepExit(last'.step)
       /\ (last'.err # "OK" /\ cms.content.handler = "ct_build_signed_data"
           /\ cms.stop_reason # "NONE")
            => cms'.stop_reason = "KSBA_SR_RUNNING"
    ]_vars

\* the build is complete and a further call has failed without writing
C26_Witness ==
  /\ log = << "KSBA_SR_GOT_CONTENT", "KSBA_SR_BEGIN_DATA",
              "KSBA_SR_NEED_SIG", "KSBA_SR_READY" >>
  /\ last.op = "ksba_cms_build"
  /\ last.pre = "KSBA_SR_READY"
  /\ last.err # "OK"
  /\ last.wrote = 0

\* the build has reached READY: its last step has succeeded
BuildReady ==
  /\ cms.content.handler = "ct_build_signed_data"
  /\ cms.stop_reason = "KSBA_SR_READY"
  /\ last.op = "ksba_cms_build" /\ last.step = "rest" /\ last.err = "OK"

\* the positions in Tokens (b, 1, 0) of the fields of the SignedData
\* SEQUENCE with the given tag: ContentInfo is level 0, its fields are level
\* 1, the SignedData SEQUENCE inside [0] is level 2
SignedDataFields(b, tag) ==
  {i \in 1..Len(Tokens(b, 1, 0)) :
     Tokens(b, 1, 0)[i].tag = tag /\ Tokens(b, 1, 0)[i].depth = 3}

Min(S) == CHOOSE x \in S : \A y \in S : x <= y
Max(S) == CHOOSE x \in S : \A y \in S : x >= y

\* eContentType: the OBJECT IDENTIFIER that follows the header of the
\* encapContentInfo SEQUENCE
RecoveredInnerOid(b) ==
  LET T == Tokens(b, 1, 0)
      S == {i \in SignedDataFields(b, 48) : T[i].len = -1 /\ i < Len(T)}
  IN  IF S = {} \/ T[Min(S) + 1].tag # TYPE_OBJECT_ID THEN <<>>
      ELSE ContentOf(b, T[Min(S) + 1])

\* signerInfos: the last SET among the fields of the SignedData, with its
\* header
RecoveredSignerInfos(b) ==
  LET T == Tokens(b, 1, 0)
      S == {i \in SignedDataFields(b, 49) : T[i].len # -1}
  IN  IF S = {} \/ Cardinality(S) < 2 THEN <<>>
      ELSE SubSeq(b, T[Max(S)].pos, T[Max(S)].pos + 1 + T[Max(S)].len)

\* ksba_cms_get_message_digest (idx 0) on the container that has parsed b
RecoveredDigest(b) ==
  LET info == [root |-> TRUE, image |-> RecoveredSignerInfos(b)]
  IN  cms_get_message_digest([ParsedSetup EXCEPT !.signer_info = info], 0,
                             FindSignedAttrs(info))

\* C21: the stream a build has written when it reaches READY is one complete
\* BER object that a parse accepts; the inner content type the parse
\* recovers is the one set with ksba_cms_set_content_type (1, ...), and
\* ksba_cms_get_message_digest (idx 0) on the parsed container returns the
\* digest of signer 0.
C21_RoundTrip ==
  BuildReady
    => /\ WellFormedBER(out)
       /\ RecoveredInnerOid(out) = ksba_oid_from_str(cms.encap_cont_type)
       /\ RecoveredDigest(out).err = "OK"
       /\ RecoveredDigest(out).digest = cms.cert_list[1].msg_digest

\* C27: when a build reaches READY it has written as many end-of-contents
\* pairs as it has opened indefinite-length headers.
C27_EveryHeaderClosed ==
  BuildReady => EndOfContents(out) = OpenedHeaders(out)

\* the length octet of the header of the digestAlgorithms SET in a stream
DigestSetHeader(b) ==
  LET S == SignedDataFields(b, 49)
  IN  Tokens(b, 1, 0)[Min(S)]

RECURSIVE AlgorithmIdentifiers(_)
AlgorithmIdentifiers(algos) ==
  IF algos = <<>> THEN <<>>
  ELSE der_algorithm_identifier(Head(algos))
       \o AlgorithmIdentifiers(Tail(algos))

\* C28: the header step gives the digestAlgorithms SET the length of the
\* AlgorithmIdentifier elements it writes behind the SET header, one for
\* each registered digest algorithm.
C28_DigestSetLength ==
  [][ (BuildCall /\ last'.step = "header" /\ last'.err = "OK")
        => LET set == DigestSetHeader(out')
               ids == AlgorithmIdentifiers(cms.digest_algos)
           IN  /\ set.len = Len(ids)
               /\ SubSeq(out', set.pos + 2, set.pos + 1 + Len(ids)) = ids
    ]_vars

\* the fields of the SignerInfo in an encoded SignerInfos tree: version,
\* sid, digestAlgorithm, signedAttrs, signatureAlgorithm, signature
SignerInfoFields(image) == ElementsIn(image, 4, Len(image))

\* the OID of an AlgorithmIdentifier at an offset of the image
AlgorithmOf(image, off) == NodeContent(image, NodeAt(image, off + 2))

\* C22: in every SignerInfo the last step of the build emits, the signature
\* is an OCTET STRING that holds signature bytes of the caller (not the bytes
\* the library puts there by itself), and the OID of signatureAlgorithm
\* differs from the OID of digestAlgorithm.
C22_SignatureFields ==
  (/\ cms.content.handler = "ct_build_signed_data"
   /\ cms.stop_reason = "KSBA_SR_NEED_SIG"
   /\ build_signed_data_rest(cms, 0).err = "OK")
    => \A idx \in 0..(Len(cms.cert_list) - 1) :
         LET image  == SignerInfoImage(idx, cms.cert_list[idx + 1],
                                       cms.digest_algos[idx + 1])
             fields == SignerInfoFields(image)
             sig    == NodeAt(image, fields[6])
         IN  /\ Len(fields) = 6
             /\ sig.type = TYPE_OCTET_STRING
             /\ NodeContent(image, sig) # PlaceholderSignature
             /\ AlgorithmOf(image, fields[5]) # AlgorithmOf(image, fields[3])

\* C30: signer_info.root and signer_info.image are both present or both
\* absent, and so are attr.root and attr.image of every signer, in every
\* state, the states after a failed build step included.
C30_PairsTogether ==
  /\ cms.signer_info.root <=> (cms.signer_info.image # <<>>)
  /\ \A i \in 1..Len(cms.cert_list) :
       cms.cert_list[i].attr.root <=> (cms.cert_list[i].attr.image # <<>>)

\* the attributes step has failed at the second signer, after it has stored
\* the attributes of the first
C30_Witness ==
  /\ last.op = "ksba_cms_build" /\ last.step = "attributes"
  /\ last.err = "KSBA_Missing_Value"
  /\ Len(cms.cert_list) = 2
  /\ cms.cert_list[1].attr.root /\ cms.cert_list[1].attr.image # <<>>
  /\ ~cms.cert_list[2].attr.root /\ cms.cert_list[2].attr.image = <<>>
  /\ cms.signer_info.root /\ cms.signer_info.image # <<>>

-----------------------------------------------------------------------------
(* The release of the container *)

\* the certificates ksba_cms_get_cert has handed to the caller
HandedOut == {heap.got[i].cert : i \in 1..Len(heap.got)} \ {0}

\* C31: ksba_cms_release leaves nothing behind that the container has
\* allocated: no string that was stored in the container is lost, every
\* certificate the container still holds is released, and no certificate
\* that was handed to the caller is released.
C31_ReleaseFreesEverything ==
  heap.freed
    => /\ heap.lost = {}
       /\ heap.released = ReleasedCerts(cms)
       /\ heap.released \cap HandedOut = {}

-----------------------------------------------------------------------------
(* Errors and progress of the engine *)

\* a ksba_cms_parse or ksba_cms_build call
EngineStep ==
  /\ last' # last
  /\ last'.op \in {"ksba_cms_parse", "ksba_cms_build"}

\* C32: an error of a signed-data handler leaves the stop reason RUNNING,
\* and every ksba_cms_parse or ksba_cms_build call on a container whose stop
\* reason is RUNNING returns Invalid_State, writes nothing and leaves the
\* container as it is.
C32_ErrorsAreSticky ==
  [][EngineStep =>
       /\ (/\ last'.err # "OK"
           /\ cms.stop_reason # "NONE"
           /\ cms.content.handler \in SignedHandlers)
            => cms'.stop_reason = "KSBA_SR_RUNNING"
       /\ cms.stop_reason = "KSBA_SR_RUNNING"
            => /\ last'.err = "KSBA_Invalid_State"
               /\ cms' = cms
               /\ out' = out
    ]_vars

\* C33: a successful ksba_cms_set_reader_writer call leaves a reader that
\* was bound before it bound, and a writer that was bound before it bound.
C33_NeverUnbinds ==
  \A r \in Readers \cup {0}, w \in Writers \cup {0} :
    LET res == cms_set_reader_writer(cms, r, w)
    IN  res.err = "OK"
          => /\ cms.reader # 0 => res.cms.reader = cms.reader
             /\ cms.writer # 0 => res.cms.writer = cms.writer

\* C34: an emission step of the builder runs only on a container that meets
\* the prerequisites of ksba_cms_build (writer bound, content handler
\* installed, inner content type set), and a ksba_cms_build call never runs
\* a parse handler.
C34_BuildStepsAfterPrerequisites ==
  [][EngineStep =>
       /\ last'.step \in EmissionSteps => BuildPrerequisites(cms) = "OK"
       /\ (last'.op = "ksba_cms_build" /\ cms.stop_reason # "NONE")
            => cms.content.handler \notin ParseHandlers
    ]_vars

\* the stop reasons of a build that has not come to its attributes step
BeforeAttributes ==
  {"NONE", "KSBA_SR_GOT_CONTENT", "KSBA_SR_BEGIN_DATA", "KSBA_SR_END_DATA"}

\* C35: ksba_cms_hash_signed_attrs calls the hash function only when the
\* container holds a SignerInfos tree with a signedAttrs region; on a
\* builder that has not come to its attributes step, and on a container
\* without the tree, it returns an error and makes no call; without a hash
\* function it returns Missing_Action and makes no call.
C35_HashNeedsStoredAttrs ==
  /\ hashed # <<>> => cms.signer_info.root
  /\ \A idx \in 0..1 :
       LET r == cms_hash_signed_attrs(cms, idx)
       IN  /\ r.calls # <<>>
                => /\ cms.signer_info.root
                   /\ FindSignedAttrs(cms.signer_info).off # -1
                   /\ cms.hash_fnc
           /\ r.err # "OK" => r.calls = <<>>
           /\ ~cms.hash_fnc => r.err = "KSBA_Missing_Action"
           /\ ~cms.signer_info.root => r.err # "OK"
           /\ (/\ cms.content.handler = "ct_build_signed_data"
               /\ cms.stop_reason \in BeforeAttributes)
                => r.err # "OK"

\* a builder at the end of the data, its hash function registered: the call
\* finds no tree and returns No_Value; nothing has been hashed
C35_Witness ==
  /\ cms.content.handler = "ct_build_signed_data"
  /\ cms.stop_reason = "KSBA_SR_END_DATA"
  /\ cms.hash_fnc
  /\ ~cms.signer_info.root
  /\ cms_hash_signed_attrs(cms, 0).err = "KSBA_No_Value"
  /\ hashed = <<>>

\* C36: every engine call that succeeds leaves a stop reason other than the
\* one it found; the call that leaves READY is at most the fourth successful
\* call on the container (log holds the stop reasons of the successful
\* calls), and exactly the fourth when the build handler ran it.
C36_BoundedProgress ==
  [][(EngineStep /\ last'.err = "OK") =>
       /\ cms'.stop_reason # cms.stop_reason
       /\ cms'.stop_reason = "KSBA_SR_READY"
            => /\ Len(log') <= 4
               /\ last'.handler = "ct_build_signed_data" => Len(log') = 4 ]_vars

====
